---- MODULE Spec2Model ----
(***************************************************************************)
(* Sant Padharamani dashboard: the account manager with its lockout state  *)
(* machine, the session manager, the JSON record store and the backup /    *)
(* restore engine, modelled from server/services/*.js and server/routes.   *)
(*                                                                         *)
(* Time is a discrete clock `now`; one tick is TickMinutes minutes, so     *)
(* the millisecond constants of the source appear divided by that unit.    *)
(***************************************************************************)
EXTENDS Integers, Sequences, FiniteSets, TLC

VARIABLES
    now,            \* Date.now(), in ticks
    users,          \* UserManagementService.users (in memory)
    usersFile,      \* data/users.json (shared with JsonStorageService.files.users)
    streak,         \* observer, parallel to users: consecutive failed password checks
    sessions,       \* SessionManagementService.sessions (Map sessionId -> session)
    nextSid,        \* source of fresh session ids (crypto.randomBytes never repeats)
    requestsFile,   \* data/padharamani-requests.json
    assignedFile,   \* data/assigned-padharamanis.json
    telegramFile,   \* data/telegram-config.json
    nextId,         \* the next Date.now().toString() record id (one per call, increasing)
    backups,        \* server/backups/*.json : filename -> file
    cloud,          \* the backup bucket : filename -> file
    nextBackup,     \* distinguishes the millisecond timestamps in backup filenames
    upd,            \* in-flight updatePadharamani calls, one per caller
    auth,           \* authenticateUser calls waiting for bcrypt.compare, one per caller
    alerts,         \* SecurityMonitoringService.alerts
    nextAlert,      \* distinguishes the generated alert ids
    ipTracker,      \* SecurityMonitoringService.ipTracker (key -> failure count)
    result          \* outcome of the last completed operation

vars == <<now, users, usersFile, streak, sessions, nextSid, requestsFile,
          assignedFile, telegramFile, nextId, backups, cloud, nextBackup, upd,
          auth, alerts, nextAlert, ipTracker, result>>

acctVars  == <<users, usersFile, streak>>
sessVars  == <<sessions, nextSid>>
storeVars == <<requestsFile, assignedFile, telegramFile, nextId>>
backupVars == <<backups, cloud, nextBackup>>
secVars == <<alerts, nextAlert, ipTracker>>

-----------------------------------------------------------------------------
(* Bounds of the model *)

MaxTime == 3
MaxSessionTime == 5
MaxUsers == 2
MaxSessions == 2
MaxRecords == 2
MaxCallers == 2
MaxBackups == 2
MaxOverflow == 1
MaxTrackedAlerts == 2

(* Program constants; the durations are in ticks of fifteen minutes *)
TickMinutes == 15
ACCOUNT_LOCKOUT_TIME == 1
MAX_LOGIN_ATTEMPTS == 5
SESSION_TIMEOUT == 4
RETENTION == 2880

Null == -1

-----------------------------------------------------------------------------
(* Security monitor: securityMonitoringService.js.  An alert carries its id, *)
(* timestamp, type, severity and acknowledged flag.                          *)

ALERT_LIMIT == 100
FAILED_LOGINS_PER_IP == 10

\* The hour of the hour-based keys, in ticks
HourTicks == 60 \div TickMinutes

getSeverity(eventType) ==
    CASE eventType \in {"ACCOUNT_LOCKED", "MULTIPLE_FAILED_LOGINS",
                        "CORS_VIOLATION", "INVALID_SESSION"} -> "HIGH"
      [] eventType = "SESSION_HIJACK_ATTEMPT" -> "CRITICAL"
      [] eventType \in {"PASSWORD_CHANGE", "SUCCESSFUL_LOGIN", "LOGOUT"} -> "LOW"
      [] eventType = "SYSTEM_START" -> "INFO"
      [] OTHER -> "MEDIUM"

\* logEntry.severity === 'HIGH' || logEntry.severity === 'CRITICAL'
Alerting(severity) == severity = "HIGH" \/ severity = "CRITICAL"

\* Faulty variant: the list is cut at its end
LastAlerts_Oldest(list) ==
    IF Len(list) > ALERT_LIMIT THEN SubSeq(list, 1, ALERT_LIMIT) ELSE list

\* if (this.alerts.length > 100) this.alerts = this.alerts.slice(-100)
LastAlerts(list) ==
    IF Len(list) > ALERT_LIMIT
    THEN SubSeq(list, Len(list) - ALERT_LIMIT + 1, Len(list))
    ELSE list

newAlert(eventType, id) ==
    [id |-> id, timestamp |-> now, type |-> eventType,
     severity |-> getSeverity(eventType), acknowledged |-> FALSE]

\* The alert list and the id source, as one value
monitor == [alerts |-> alerts, next |-> nextAlert]

\* logSecurityEvent on the monitor m; appended tells whether appendFile wrote
\* the line (when it throws, the catch block ends the call)
logSecurityEvent(m, eventType, appended) ==
    IF appended /\ Alerting(getSeverity(eventType))
    THEN [alerts |-> LastAlerts(Append(m.alerts, newAlert(eventType, m.next))),
          next |-> m.next + 1]
    ELSE m

\* trackAccountLocked, as authenticateUser calls it
trackAccountLocked(appended) ==
    LET m == logSecurityEvent(monitor, "ACCOUNT_LOCKED", appended) IN
    /\ alerts' = m.alerts
    /\ nextAlert' = m.next
    /\ UNCHANGED ipTracker

-----------------------------------------------------------------------------
(* Account & credential manager: userManagementService.js *)

ADMIN_EMAIL == "admin@santpadharamani.com"
ADMIN_PASSWORD == "admin123456"

Emails == {ADMIN_EMAIL, "bob@example.com"}
\* Passwords tried at login, and passwords offered as new passwords
Passwords == {ADMIN_PASSWORD, "Passw0rd!"}
NewPasswords == {"Passw0rd!", "short"}

\* bcrypt.hash / bcrypt.compare: a hash matches exactly the password it was made from
NoHash == [alg |-> "none", of |-> ""]
Hash(p) == [alg |-> "bcrypt", of |-> p]
Compare(p, h) == h = Hash(p)

\* The character classes validatePasswordComplexity tests, per model password
PwProps(p) ==
    CASE p = "admin123456" -> [len |-> 11, lower |-> TRUE, upper |-> FALSE, digit |-> TRUE, special |-> FALSE]
      [] p = "Passw0rd!"   -> [len |-> 9, lower |-> TRUE, upper |-> TRUE, digit |-> TRUE, special |-> TRUE]
      [] OTHER             -> [len |-> 5, lower |-> TRUE, upper |-> FALSE, digit |-> FALSE, special |-> FALSE]

validatePasswordComplexity(p) ==
    LET q == PwProps(p) IN
    /\ ~(q.len < 8)
    /\ q.lower
    /\ q.upper
    /\ q.digit
    /\ q.special

\* users.findIndex(u => u.email === email), 1-based, 0 when absent
RECURSIVE FindFrom(_, _, _)
FindFrom(us, e, i) ==
    IF i > Len(us) THEN 0
    ELSE IF us[i].email = e THEN i
    ELSE FindFrom(us, e, i + 1)

FindIndex(us, e) == FindFrom(us, e, 1)

\* array.splice(index, 1)
Splice(s, i) == [j \in 1..(Len(s) - 1) |-> IF j < i THEN s[j] ELSE s[j + 1]]

defaultAdmin ==
    [id |-> [kind |-> "admin", n |-> now],
     email |-> ADMIN_EMAIL,
     password |-> Hash(ADMIN_PASSWORD),
     isApproved |-> TRUE,
     isAdmin |-> TRUE,
     mustChangePassword |-> TRUE,
     failedLoginAttempts |-> 0,
     accountLockedUntil |-> Null,
     telegramId |-> Null,
     approvedAt |-> Null]

\* ensureDefaultAdmin: the account list authenticate goes on with
ensureDefaultAdmin(us) ==
    IF \E i \in 1..Len(us) : us[i].email = ADMIN_EMAIL THEN us
    ELSE Append(us, defaultAdmin)

\* The lock test of authenticateUser
IsLocked(u) == u.accountLockedUntil # Null /\ now < u.accountLockedUntil

\* The lazy unlock of authenticateUser
LockExpired(u) == u.accountLockedUntil # Null /\ now >= u.accountLockedUntil

\* Faulty variant: the lazy unlock forgets to clear the lock timestamp
Unlocked_KeepsTimestamp(u) ==
    IF LockExpired(u)
    THEN [u EXCEPT !.failedLoginAttempts = 0]
    ELSE u

Unlocked(u) ==
    IF LockExpired(u)
    THEN [u EXCEPT !.failedLoginAttempts = 0, !.accountLockedUntil = Null]
    ELSE u

\* Faulty variant: the threshold is compared with > instead of >=
ReachedMaxAttempts_Strict(n) == n > MAX_LOGIN_ATTEMPTS

\* The lock threshold of authenticateUser
ReachedMaxAttempts(n) == n >= MAX_LOGIN_ATTEMPTS

\* The account after a failed password check
FailedCheck(u) ==
    LET n == u.failedLoginAttempts + 1 IN
    IF ReachedMaxAttempts(n)
    THEN [u EXCEPT !.failedLoginAttempts = n,
                   !.accountLockedUntil = now + ACCOUNT_LOCKOUT_TIME]
    ELSE [u EXCEPT !.failedLoginAttempts = n]

\* Faulty variant: a successful login leaves the failure counter alone
PassedCheck_KeepsCount(u) == u

\* The account after a successful password check
PassedCheck(u) ==
    IF u.failedLoginAttempts > 0
    THEN [u EXCEPT !.failedLoginAttempts = 0, !.accountLockedUntil = Null]
    ELSE u

\* Faulty variant: the failed attempt is written out only when it locks
FailureSaved_OnlyOnLock(file, us, v) ==
    IF ReachedMaxAttempts(v.failedLoginAttempts) THEN us ELSE file

\* users.json after a failed password check: saveUsers() runs on both paths
FailureSaved(file, us, v) == us

Bump(n) == IF n > MAX_LOGIN_ATTEMPTS THEN n ELSE n + 1

\* appended: whether the security log can be written when the monitor is told
\* of a lockout
authenticateUser(email, password, appended) ==
    LET us0 == ensureDefaultAdmin(users)
        st0 == IF Len(us0) > Len(users) THEN Append(streak, 0) ELSE streak
        f0  == IF Len(us0) > Len(users) THEN us0 ELSE usersFile
        i   == FindIndex(us0, email)
        r(s) == [op |-> "authenticate", index |-> i, status |-> s,
                 pwOk |-> (i # 0 /\ Compare(password, us0[i].password)),
                 before |-> IF i = 0 THEN 0 ELSE us0[i].failedLoginAttempts]
    IN
    IF i = 0 THEN
        /\ users' = us0 /\ usersFile' = f0 /\ streak' = st0
        /\ result' = r("InvalidCredentials")
        /\ UNCHANGED secVars
    ELSE IF IsLocked(us0[i]) THEN
        /\ users' = us0 /\ usersFile' = f0 /\ streak' = st0
        /\ result' = r("AccountLocked")
        /\ UNCHANGED secVars
    ELSE
        LET u == Unlocked(us0[i])
            us1 == [us0 EXCEPT ![i] = u]
        IN
        IF ~u.isApproved THEN
            /\ users' = us1 /\ usersFile' = f0 /\ streak' = st0
            /\ result' = r("NotApproved")
            /\ UNCHANGED secVars
        ELSE IF u.password = NoHash THEN
            \* bcrypt.compare rejects when the hash argument is undefined
            /\ users' = us1 /\ usersFile' = f0 /\ streak' = st0
            /\ result' = r("Error")
            /\ UNCHANGED secVars
        ELSE IF ~Compare(password, u.password) THEN
            LET v == FailedCheck(u)
                us2 == [us1 EXCEPT ![i] = v]
            IN
            /\ users' = us2 /\ usersFile' = FailureSaved(f0, us2, v)
            /\ streak' = [st0 EXCEPT ![i] = Bump(@)]
            /\ result' = r(IF ReachedMaxAttempts(v.failedLoginAttempts)
                           THEN "AccountLocked" ELSE "InvalidCredentials")
            /\ IF ReachedMaxAttempts(v.failedLoginAttempts)
               THEN trackAccountLocked(appended)
               ELSE UNCHANGED secVars
        ELSE
            LET v == PassedCheck(u)
                us2 == [us1 EXCEPT ![i] = v]
            IN
            /\ users' = us2
            /\ usersFile' = IF u.failedLoginAttempts > 0 THEN us2 ELSE f0
            /\ streak' = [st0 EXCEPT ![i] = 0]
            /\ result' = r("Success")
            /\ UNCHANGED secVars

AuthenticateWith(logOutcomes) ==
    \E e \in Emails \cup {"bob@telegram.local"}, p \in Passwords,
       appended \in logOutcomes :
        /\ Len(ensureDefaultAdmin(users)) <= MaxUsers
        /\ authenticateUser(e, p, appended)
        /\ UNCHANGED <<now, sessVars, storeVars, backupVars, upd, auth>>

\* The account specifications follow the accounts alone: in them the security
\* log is not writable, so the monitor's alert list stays as it is
Authenticate == AuthenticateWith({FALSE})

\* Faulty variant: the new account is approved from the start
newUser_Approved(email, password, isAdmin) ==
    [id |-> [kind |-> "user", n |-> now],
     email |-> email,
     password |-> Hash(password),
     isApproved |-> TRUE,
     isAdmin |-> isAdmin,
     mustChangePassword |-> FALSE,
     failedLoginAttempts |-> 0,
     accountLockedUntil |-> Null,
     telegramId |-> Null,
     approvedAt |-> Null]

\* createUser(email, password, name, isAdmin)
newUser(email, password, isAdmin) ==
    [id |-> [kind |-> "user", n |-> now],
     email |-> email,
     password |-> Hash(password),
     isApproved |-> FALSE,
     isAdmin |-> isAdmin,
     mustChangePassword |-> FALSE,
     failedLoginAttempts |-> 0,
     accountLockedUntil |-> Null,
     telegramId |-> Null,
     approvedAt |-> Null]

createUser(email, password, isAdmin) ==
    LET r(s) == [op |-> "createUser", index |-> 0, status |-> s] IN
    IF FindIndex(users, email) # 0 THEN
        /\ UNCHANGED acctVars
        /\ result' = r("DuplicateAccount")
    ELSE IF ~validatePasswordComplexity(password) THEN
        /\ UNCHANGED acctVars
        /\ result' = r("WeakPassword")
    ELSE
        /\ users' = Append(users, newUser(email, password, isAdmin))
        /\ usersFile' = users'
        /\ streak' = Append(streak, 0)
        /\ result' = r("Success")

CreateUserWith(emails) ==
    \E e \in emails, p \in NewPasswords, a \in BOOLEAN :
        /\ Len(users) < MaxUsers
        /\ createUser(e, p, a)
        /\ UNCHANGED <<now, sessVars, storeVars, backupVars, upd, auth, secVars>>

CreateUser == CreateUserWith(Emails)

\* POST /auth/register: a first length test, then createUser without isAdmin
register(email, password) ==
    IF PwProps(password).len < 8 THEN
        /\ UNCHANGED acctVars
        /\ result' = [op |-> "createUser", index |-> 0, status |-> "WeakPassword"]
    ELSE createUser(email, password, FALSE)

RegisterWith(emails) ==
    \E e \in emails, p \in Passwords \cup NewPasswords :
        /\ Len(users) < MaxUsers
        /\ register(e, p)
        /\ UNCHANGED <<now, sessVars, storeVars, backupVars, upd, auth, secVars>>

\* The same addresses, and one that differs from the administrator's in case only
MixedCaseEmails == Emails \cup {"Admin@SantPadharamani.com"}

approveUser(email) ==
    LET i == FindIndex(users, email)
        r(s) == [op |-> "approveUser", index |-> i, status |-> s]
    IN
    IF i = 0 THEN
        /\ UNCHANGED acctVars
        /\ result' = r("NotFound")
    ELSE
        /\ users' = [users EXCEPT ![i].isApproved = TRUE, ![i].approvedAt = now]
        /\ usersFile' = users'
        /\ UNCHANGED streak
        /\ result' = r("Success")

ApproveUser ==
    \E e \in Emails :
        /\ approveUser(e)
        /\ UNCHANGED <<now, sessVars, storeVars, backupVars, upd, auth, secVars>>

\* users.filter(u => u.isAdmin && u.isApproved)
adminUsers(us) == {j \in 1..Len(us) : us[j].isAdmin /\ us[j].isApproved}

\* The last-admin guard of deleteUser
LastAdminGuard(us, i) == Cardinality(adminUsers(us)) = 1 /\ us[i].isAdmin

deleteUser(email) ==
    LET i == FindIndex(users, email)
        r(s) == [op |-> "deleteUser", index |-> i, status |-> s]
    IN
    IF i = 0 THEN
        /\ UNCHANGED acctVars
        /\ result' = r("NotFound")
    ELSE IF LastAdminGuard(users, i) THEN
        /\ UNCHANGED acctVars
        /\ result' = r("LastAdminProtected")
    ELSE
        /\ users' = Splice(users, i)
        /\ usersFile' = users'
        /\ streak' = Splice(streak, i)
        /\ result' = r("Success")

DeleteUser ==
    \E e \in Emails :
        /\ deleteUser(e)
        /\ UNCHANGED <<now, sessVars, storeVars, backupVars, upd, auth, secVars>>

\* { ...user, ...updates }: the fields of the patch overwrite, the others stay
Merge(u, patch) ==
    [k \in DOMAIN u \cup DOMAIN patch |-> IF k \in DOMAIN patch THEN patch[k] ELSE u[k]]

\* The request bodies PUT /auth/users/:email is exercised with
UserPatches ==
    {[isAdmin |-> b] : b \in BOOLEAN} \cup
    {[isApproved |-> b] : b \in BOOLEAN} \cup
    {[password |-> p] : p \in {"Passw0rd!"}}

\* updates.password = await bcrypt.hash(updates.password, 10)
HashedPatch(patch) ==
    IF "password" \in DOMAIN patch
    THEN [patch EXCEPT !.password = Hash(@)]
    ELSE patch

updateUser(email, updates) ==
    LET i == FindIndex(users, email)
        r(s) == [op |-> "updateUser", index |-> i, status |-> s]
    IN
    IF i = 0 THEN
        /\ UNCHANGED acctVars
        /\ result' = r("NotFound")
    ELSE
        /\ users' = [users EXCEPT ![i] = Merge(@, HashedPatch(updates))]
        /\ usersFile' = users'
        /\ UNCHANGED streak
        /\ result' = r("Success")

UpdateUserWith(patches) ==
    \E e \in Emails, patch \in patches :
        /\ updateUser(e, patch)
        /\ UNCHANGED <<now, sessVars, storeVars, backupVars, upd, auth, secVars>>

UpdateUser == UpdateUserWith(UserPatches)

\* Faulty variant: the current password is never asked for
CurrentPasswordRequired_Never(u) == FALSE

\* if (!user.mustChangePassword): the current password is checked
CurrentPasswordRequired(u) == ~u.mustChangePassword

changePassword(email, currentPassword, newPassword) ==
    LET i == FindIndex(users, email)
        r(s) == [op |-> "changePassword", index |-> i, status |-> s,
                 curOk |-> (i # 0 /\ Compare(currentPassword, users[i].password))]
    IN
    IF i = 0 THEN
        /\ UNCHANGED acctVars
        /\ result' = r("NotFound")
    ELSE IF CurrentPasswordRequired(users[i]) /\ ~Compare(currentPassword, users[i].password) THEN
        /\ UNCHANGED acctVars
        /\ result' = r("InvalidCredentials")
    ELSE IF ~validatePasswordComplexity(newPassword) THEN
        /\ UNCHANGED acctVars
        /\ result' = r("WeakPassword")
    ELSE
        /\ users' = [users EXCEPT ![i].password = Hash(newPassword),
                                  ![i].mustChangePassword = FALSE]
        /\ usersFile' = users'
        /\ UNCHANGED streak
        /\ result' = r("Success")

ChangePassword ==
    \E e \in Emails, c \in Passwords, n \in NewPasswords :
        /\ changePassword(e, c, n)
        /\ UNCHANGED <<now, sessVars, storeVars, backupVars, upd, auth, secVars>>

\* Telegram profiles: id and optional username ("" when the profile has none)
TelegramProfiles == {[id |-> 101, username |-> "bob"]}

\* `${username}@telegram.local` or `user_${id}@telegram.local`
TelegramEmail(t) ==
    IF t.username # "" THEN
        CASE t.username = "bob" -> "bob@telegram.local"
          [] OTHER -> "other@telegram.local"
    ELSE
        CASE t.id = 101 -> "user_101@telegram.local"
          [] OTHER -> "user_n@telegram.local"

telegramUser(t) ==
    [id |-> [kind |-> "tg", n |-> t.id],
     email |-> TelegramEmail(t),
     password |-> NoHash,
     isApproved |-> TRUE,
     isAdmin |-> FALSE,
     mustChangePassword |-> FALSE,
     failedLoginAttempts |-> 0,
     accountLockedUntil |-> Null,
     telegramId |-> t.id,
     approvedAt |-> Null]

\* Faulty variant: the lookup by telegramId finds nothing
TelegramUserExists_Never(us, id) == FALSE

\* this.users.find(u => u.telegramId === telegramData.id)
TelegramUserExists(us, id) == \E j \in 1..Len(us) : us[j].telegramId = id

createTelegramUser(t) ==
    LET r(s) == [op |-> "createTelegramUser", index |-> 0, status |-> s,
                 telegramId |-> t.id]
    IN
    IF TelegramUserExists(users, t.id) THEN
        /\ UNCHANGED acctVars
        /\ result' = r("Existing")
    ELSE
        /\ users' = Append(users, telegramUser(t))
        /\ usersFile' = users'
        /\ streak' = Append(streak, 0)
        /\ result' = r("Success")

CreateTelegramUser ==
    \E t \in TelegramProfiles :
        /\ Len(users) < MaxUsers \/ (\E j \in 1..Len(users) : users[j].telegramId = t.id)
        /\ createTelegramUser(t)
        /\ UNCHANGED <<now, sessVars, storeVars, backupVars, upd, auth, secVars>>

-----------------------------------------------------------------------------
(* Session manager: sessionManagementService.js *)

\* The identities sessions are created for: (user.id, user.email)
SessionUsers ==
    {[id |-> [kind |-> "admin", n |-> 0], email |-> ADMIN_EMAIL],
     [id |-> [kind |-> "user", n |-> 0], email |-> "bob@example.com"]}

SessionIds == 1..MaxSessions

\* Map.set / Map.delete
MapSet(m, k, v) == [x \in DOMAIN m \cup {k} |-> IF x = k THEN v ELSE m[x]]
MapDelete(m, ks) == [x \in DOMAIN m \ ks |-> m[x]]

newSession(sid, u) ==
    [sessionId |-> sid,
     userId |-> u.id,
     email |-> u.email,
     createdAt |-> now,
     lastAccessedAt |-> now,
     expiresAt |-> now + SESSION_TIMEOUT]

createSession(u) ==
    /\ sessions' = MapSet(sessions, nextSid, newSession(nextSid, u))
    /\ nextSid' = nextSid + 1
    /\ result' = [op |-> "createSession", sid |-> nextSid, status |-> "Success"]

CreateSession ==
    \E u \in SessionUsers :
        /\ nextSid <= MaxSessions
        /\ createSession(u)
        /\ UNCHANGED <<now, acctVars, storeVars, backupVars, upd, auth, secVars>>

\* Faulty variant: a session counts as expired from the instant expiresAt
Expired_AtDeadline(s) == s.expiresAt <= now

\* The expiry test of getSession and cleanupExpiredSessions
Expired(s) == s.expiresAt < now

\* Faulty variant: the extension moves expiresAt but not lastAccessedAt
Touched_ExpiryOnly(s) == [s EXCEPT !.expiresAt = now + SESSION_TIMEOUT]

\* The sliding extension of getSession
Touched(s) == [s EXCEPT !.lastAccessedAt = now, !.expiresAt = now + SESSION_TIMEOUT]

getSession(sid) ==
    LET r(st) == [op |-> "getSession", sid |-> sid, status |-> st] IN
    IF sid \notin DOMAIN sessions THEN
        /\ UNCHANGED sessions
        /\ result' = r("None")
    ELSE IF Expired(sessions[sid]) THEN
        /\ sessions' = MapDelete(sessions, {sid})
        /\ result' = r("None")
    ELSE
        /\ sessions' = [sessions EXCEPT ![sid] = Touched(@)]
        /\ result' = r("Found")

GetSession ==
    \E sid \in SessionIds :
        /\ getSession(sid)
        /\ UNCHANGED <<now, acctVars, nextSid, storeVars, backupVars, upd, auth, secVars>>

destroySession(sid) ==
    /\ sessions' = MapDelete(sessions, {sid})
    /\ result' = [op |-> "destroySession", sid |-> sid, status |-> "Success"]

DestroySession ==
    \E sid \in SessionIds :
        /\ destroySession(sid)
        /\ UNCHANGED <<now, acctVars, nextSid, storeVars, backupVars, upd, auth, secVars>>

\* Faulty variant: the filter of destroyAllUserSessions accepts every session
OwnedBy_Anyone(s, userId) == TRUE

\* The filter of destroyAllUserSessions
OwnedBy(s, userId) == s.userId = userId

destroyAllUserSessions(userId) ==
    LET userSessions == {k \in DOMAIN sessions : OwnedBy(sessions[k], userId)} IN
    /\ sessions' = MapDelete(sessions, userSessions)
    /\ result' = [op |-> "destroyAllUserSessions", sid |-> 0, userId |-> userId,
                   status |-> "Success", count |-> Cardinality(userSessions)]

DestroyAllUserSessions ==
    \E u \in SessionUsers :
        /\ destroyAllUserSessions(u.id)
        /\ UNCHANGED <<now, acctVars, nextSid, storeVars, backupVars, upd, auth, secVars>>

cleanupExpiredSessions ==
    LET cleaned == {k \in DOMAIN sessions : Expired(sessions[k])} IN
    /\ sessions' = MapDelete(sessions, cleaned)
    /\ result' = [op |-> "cleanupExpiredSessions", sid |-> 0,
                   status |-> "Success", count |-> Cardinality(cleaned)]

CleanupExpiredSessions ==
    /\ cleanupExpiredSessions
    /\ UNCHANGED <<now, acctVars, nextSid, storeVars, backupVars, upd, auth, secVars>>

-----------------------------------------------------------------------------
(* Record store: jsonStorageService.js.  A record carries its id, date,     *)
(* status, createdDate and one free-text field; the other contact fields    *)
(* are copied the same way as comments.  Ids are the decimal strings of     *)
(* Date.now().                                                              *)

\* The JSON value null in a field of a request body or of a stored row
JsNull == "null"

\* The field values that count as false in x || y and if (x)
Falsy == {"", JsNull}

Date1 == "2026-12-01"

\* items.findIndex(item => item.id === id), 1-based, 0 when absent
RECURSIVE FindIdFrom(_, _, _)
FindIdFrom(items, id, i) ==
    IF i > Len(items) THEN 0
    ELSE IF items[i].id = id THEN i
    ELSE FindIdFrom(items, id, i + 1)

FindId(items, id) == FindIdFrom(items, id, 1)

\* data.field || dflt, for the string fields
OrElse(data, k, dflt) == IF k \in DOMAIN data /\ data[k] \notin Falsy THEN data[k] ELSE dflt

\* updatedData.date is truthy
HasDate(data) == "date" \in DOMAIN data /\ data.date \notin Falsy

requestData(data, id) ==
    [id |-> id,
     comments |-> OrElse(data, "comments", ""),
     createdDate |-> now,
     status |-> "Pending"]

schedulePadharamani(data) ==
    /\ requestsFile' = Append(requestsFile, requestData(data, nextId))
    /\ nextId' = nextId + 1
    /\ UNCHANGED <<assignedFile, telegramFile>>
    /\ result' = [op |-> "schedulePadharamani", id |-> nextId, status |-> "Success"]

\* The row addPadharamani builds; fresh is the id Date.now() would give
assignedData(data, fresh) ==
    [id |-> IF "id" \in DOMAIN data THEN data.id ELSE fresh,
     date |-> OrElse(data, "date", ""),
     comments |-> OrElse(data, "comments", ""),
     status |-> OrElse(data, "status", "Scheduled"),
     createdDate |-> now]

addPadharamani(data) ==
    /\ assignedFile' = Append(assignedFile, assignedData(data, nextId))
    /\ nextId' = IF "id" \in DOMAIN data THEN nextId ELSE nextId + 1
    /\ UNCHANGED <<requestsFile, telegramFile>>
    /\ result' = [op |-> "addPadharamani", id |-> assignedData(data, nextId).id,
                   status |-> "Success"]

deletePadharamani(id) ==
    LET ri == FindId(requestsFile, id)
        ai == FindId(assignedFile, id)
        r(st) == [op |-> "deletePadharamani", id |-> id, status |-> st]
    IN
    IF ri # 0 THEN
        /\ requestsFile' = Splice(requestsFile, ri)
        /\ UNCHANGED <<assignedFile, telegramFile, nextId>>
        /\ result' = r("Success")
    ELSE IF ai # 0 THEN
        /\ assignedFile' = Splice(assignedFile, ai)
        /\ UNCHANGED <<requestsFile, telegramFile, nextId>>
        /\ result' = r("Success")
    ELSE
        /\ UNCHANGED storeVars
        /\ result' = r("NotFound")

\* Ids handed out so far: the ids a caller can know and send back
IssuedIds == 1..(nextId - 1)

\* Request bodies of POST /api/padharamanis/schedule
ScheduleBodies == {[comments |-> "evening"]}

\* Request bodies of POST /api/padharamanis, without and with an id field
AddBodies ==
    {[date |-> Date1]} \cup {[date |-> Date1, id |-> k] : k \in IssuedIds}

\* Request bodies of PUT /api/padharamanis/:id
EditBodies == {[date |-> Date1], [comments |-> "call first"]}

\* The same, and bodies that carry an id field
UpdateBodies == EditBodies \cup {[id |-> k] : k \in IssuedIds}

StoredRecords == Len(requestsFile) + Len(assignedFile)

SchedulePadharamani ==
    \E data \in ScheduleBodies :
        /\ StoredRecords < MaxRecords /\ nextId <= MaxRecords
        /\ schedulePadharamani(data)
        /\ UNCHANGED <<now, acctVars, sessVars, backupVars, upd, auth, secVars>>

AddPadharamaniWith(bodies) ==
    \E data \in bodies :
        /\ StoredRecords < MaxRecords /\ nextId <= MaxRecords
        /\ addPadharamani(data)
        /\ UNCHANGED <<now, acctVars, sessVars, backupVars, upd, auth, secVars>>

AddPadharamani == AddPadharamaniWith(AddBodies)

DeletePadharamani ==
    \E id \in 1..MaxRecords :
        /\ deletePadharamani(id)
        /\ UNCHANGED <<now, acctVars, sessVars, backupVars, upd, auth, secVars>>

(* updatePadharamani, one step per file operation it awaits.  upd[c] is the *)
(* local state of caller c's call: the arrays it has read and edited.       *)

\* Observer: the ids of the rows of the file that the array a call is about
\* to write does not hold as they are (rows other than the call's own)
Discarded(file, mine, index) ==
    {file[j].id : j \in {k \in 1..Len(file) :
                            k # index /\ (k > Len(mine) \/ mine[k] # file[k])}}

finished(c, id, st, discarded) ==
    /\ upd' = MapDelete(upd, {c})
    /\ result' = [op |-> "updatePadharamani", id |-> id, status |-> st,
                   discarded |-> discarded]

\* { ...requestData, ...updatedData, id }
movedData(request, patch, id) == Merge(Merge(request, patch), [id |-> id])

\* const requests = await this.readFile(...); branch on where the id is
UpdateReadRequests(c, id, patch) ==
    LET ri == FindId(requestsFile, id) IN
    /\ c \notin DOMAIN upd
    /\ StoredRecords <= MaxRecords
    /\ upd' = MapSet(upd, c,
            [id |-> id, patch |-> patch, index |-> ri,
             requests |-> IF ri # 0 /\ ~HasDate(patch)
                          THEN [requestsFile EXCEPT ![ri] = Merge(@, patch)]
                          ELSE requestsFile,
             assigned |-> <<>>,
             pc |-> IF ri = 0 THEN "readAssigned"
                    ELSE IF HasDate(patch) THEN "addRead"
                    ELSE "writeRequests"])
    /\ UNCHANGED <<storeVars, result>>

\* addPadharamani: const assigned = await this.readFile(...); assigned.push(...)
UpdateAddRead(c) ==
    /\ c \in DOMAIN upd /\ upd[c].pc = "addRead"
    /\ upd' = [upd EXCEPT ![c].pc = "addWrite",
                           ![c].assigned = Append(assignedFile,
                               assignedData(movedData(upd[c].requests[upd[c].index],
                                                      upd[c].patch, upd[c].id), nextId))]
    /\ UNCHANGED <<storeVars, result>>

\* Faulty variant: the row is not in the Assigned file when the request goes
UpdateAddWrite_Deferred(c) ==
    /\ c \in DOMAIN upd /\ upd[c].pc = "addWrite"
    /\ upd' = [upd EXCEPT ![c].pc = "removeWrite"]
    /\ UNCHANGED <<storeVars, result>>

\* addPadharamani: await this.writeFile(assignedPadharamanis, assigned)
UpdateAddWrite(c) ==
    /\ c \in DOMAIN upd /\ upd[c].pc = "addWrite"
    /\ assignedFile' = upd[c].assigned
    /\ upd' = [upd EXCEPT ![c].pc = "removeWrite"]
    /\ UNCHANGED <<requestsFile, telegramFile, nextId, result>>

\* requests.splice(requestIndex, 1); await this.writeFile(padharamaniRequests, requests)
UpdateRemoveWrite(c) ==
    /\ c \in DOMAIN upd /\ upd[c].pc = "removeWrite"
    /\ requestsFile' = Splice(upd[c].requests, upd[c].index)
    /\ finished(c, upd[c].id, "Moved",
                Discarded(requestsFile, upd[c].requests, upd[c].index))
    /\ UNCHANGED <<assignedFile, telegramFile, nextId>>

\* Faulty variant: only the call's own row is put into the file as it is now
WrittenRequests_OwnRow(c) ==
    IF upd[c].index <= Len(requestsFile)
    THEN [requestsFile EXCEPT ![upd[c].index] = upd[c].requests[upd[c].index]]
    ELSE requestsFile

\* The array the call writes: the one it read, with its own row merged
WrittenRequests(c) == upd[c].requests

\* await this.writeFile(padharamaniRequests, requests) after the in-place merge
UpdateWriteRequests(c) ==
    /\ c \in DOMAIN upd /\ upd[c].pc = "writeRequests"
    /\ requestsFile' = WrittenRequests(c)
    /\ finished(c, upd[c].id, "Success",
                Discarded(requestsFile, upd[c].requests, upd[c].index))
    /\ UNCHANGED <<assignedFile, telegramFile, nextId>>

\* const assigned = await this.readFile(...); merge in place or throw
UpdateReadAssigned(c) ==
    LET ai == FindId(assignedFile, upd[c].id) IN
    /\ c \in DOMAIN upd /\ upd[c].pc = "readAssigned"
    /\ IF ai # 0
       THEN /\ upd' = [upd EXCEPT ![c].pc = "writeAssigned",
                                   ![c].assigned = [assignedFile EXCEPT
                                        ![ai] = Merge(@, upd[c].patch)]]
            /\ UNCHANGED result
       ELSE finished(c, upd[c].id, "NotFound", {})
    /\ UNCHANGED storeVars

\* await this.writeFile(assignedPadharamanis, assigned) after the in-place merge
UpdateWriteAssigned(c) ==
    /\ c \in DOMAIN upd /\ upd[c].pc = "writeAssigned"
    /\ assignedFile' = upd[c].assigned
    /\ finished(c, upd[c].id, "Success",
                Discarded(assignedFile, upd[c].assigned,
                          FindId(upd[c].assigned, upd[c].id)))
    /\ UNCHANGED <<requestsFile, telegramFile, nextId>>

updatePadharamani(c, bodies) ==
    /\ \/ \E id \in 1..MaxRecords, patch \in bodies : UpdateReadRequests(c, id, patch)
       \/ UpdateAddRead(c)
       \/ UpdateAddWrite(c)
       \/ UpdateRemoveWrite(c)
       \/ UpdateWriteRequests(c)
       \/ UpdateReadAssigned(c)
       \/ UpdateWriteAssigned(c)
    /\ UNCHANGED <<now, acctVars, sessVars, backupVars, secVars, auth>>

\* No call is in flight
Quiescent == DOMAIN upd = {}

\* One request at a time: a call starts when the previous one has completed
UpdatePadharamani == updatePadharamani(1, UpdateBodies)

\* Requests of several callers, interleaved at the awaited file operations
UpdatePadharamaniConcurrently == \E c \in 1..MaxCallers : updatePadharamani(c, EditBodies)

updateTelegramConfig(configData) ==
    /\ telegramFile' = Merge(telegramFile, configData)
    /\ UNCHANGED <<requestsFile, assignedFile, nextId>>
    /\ result' = [op |-> "updateTelegramConfig", status |-> "Success"]

UpdateTelegramConfig ==
    \E configData \in {[botUsername |-> "padharamani_bot"]} :
        /\ updateTelegramConfig(configData)
        /\ UNCHANGED <<now, acctVars, sessVars, backupVars, upd, auth, secVars>>

\* Object.entries(this.files): the collections and what their files hold
FileKeys == {"padharamaniRequests", "assignedPadharamanis", "users", "telegramConfig"}

FileContents ==
    [padharamaniRequests |-> requestsFile,
     assignedPadharamanis |-> assignedFile,
     users |-> usersFile,
     telegramConfig |-> telegramFile]

\* getAllData: every file, and the time of the read
getAllData ==
    [k \in FileKeys \cup {"backupTimestamp"} |->
        IF k = "backupTimestamp" THEN now ELSE FileContents[k]]

\* Faulty variant: an empty collection in the backup is skipped like a missing one
Present_NonEmpty(backupData, k) ==
    /\ k \in DOMAIN backupData
    /\ (k # "telegramConfig" => backupData[k] # <<>>)

\* if (backupData[key]): the key is there (an array or object is truthy, even empty)
Present(backupData, k) == k \in DOMAIN backupData

\* Faulty variant: the records of the backup are added to the stored ones
Restored_Merged(backupData, k) ==
    IF ~Present(backupData, k) THEN FileContents[k]
    ELSE IF k = "telegramConfig" THEN backupData[k]
    ELSE FileContents[k] \o backupData[k]

\* What restoreAllData leaves in the file of collection k
Restored(backupData, k) ==
    IF Present(backupData, k) THEN backupData[k] ELSE FileContents[k]

restoreAllData(backupData) ==
    /\ requestsFile' = Restored(backupData, "padharamaniRequests")
    /\ assignedFile' = Restored(backupData, "assignedPadharamanis")
    /\ usersFile' = Restored(backupData, "users")
    /\ telegramFile' = Restored(backupData, "telegramConfig")

-----------------------------------------------------------------------------
(* Backup / restore engine: backupService.js, routes/backup.js and the     *)
(* scheduler's createManualBackup.                                         *)

\* createManualBackup: the type POST /backup/create asks for
ManualType == "manual"

BackupTypes == {ManualType, "pre-restore"}

\* `backup-${backupType}-${timestamp}.json`
Filename(type, n) == [type |-> type, n |-> n]

\* The parsed contents of the backup file createBackup writes
backupFile(type) ==
    [metadata |-> [timestamp |-> now, type |-> type, version |-> "1.0",
                   dataKeys |-> FileKeys],
     data |-> getAllData]

\* Faulty variant: a file dated exactly at the cutoff counts as old
OlderThanCutoff_Inclusive(created) == created <= now - RETENTION

\* stats.mtime < cutoffDate, fileDate < cutoffDate
OlderThanCutoff(created) == created < now - RETENTION

\* cleanupOldBackups: the files that are not older than the cutoff date
Kept(files) == [f \in {g \in DOMAIN files : ~OlderThanCutoff(files[g].created)} |-> files[f]]

\* The local and remote backups after createBackup(type); bucketOk tells
\* whether the bucket operations of this call succeed (their failure is caught)
localAfterBackup(type) ==
    Kept(MapSet(backups, Filename(type, nextBackup),
                [content |-> backupFile(type), created |-> now]))

cloudAfterBackup(type, bucketOk) ==
    IF bucketOk
    THEN Kept(MapSet(cloud, Filename(type, nextBackup),
                     [content |-> backupFile(type), created |-> now]))
    ELSE cloud

createBackup(type, bucketOk) ==
    /\ backups' = localAfterBackup(type)
    /\ cloud' = cloudAfterBackup(type, bucketOk)
    /\ nextBackup' = nextBackup + 1

\* The outcomes of the operations createBackup awaits: reading the collections,
\* writing the local file, and the bucket operations
IoOutcomes == [read : BOOLEAN, write : BOOLEAN, bucket : BOOLEAN]

HealthyOutcomes == {io \in IoOutcomes : io.read /\ io.write}

\* Faulty variant: a failed upload is rethrown instead of being caught
Succeeds_NeedsBucket(io) == io.read /\ io.write /\ io.bucket

\* createBackup returns unless getAllData or the local writeFile throws
Succeeds(io) == io.read /\ io.write

\* createManualBackup(): createBackup('manual'), its error rethrown
createManualBackup(io) ==
    LET r(st) == [op |-> "createBackup", status |-> st,
                  file |-> Filename(ManualType, nextBackup), io |-> io]
    IN
    IF Succeeds(io) THEN
        /\ createBackup(ManualType, io.bucket)
        /\ result' = r("Success")
    ELSE
        /\ UNCHANGED backupVars
        /\ result' = r("Error")

\* POST /backup/create
CreateBackupWith(outcomes) ==
    \E io \in outcomes :
        /\ nextBackup <= MaxBackups
        /\ createManualBackup(io)
        /\ UNCHANGED <<now, acctVars, sessVars, storeVars, upd, auth, secVars>>

CreateBackup == CreateBackupWith(HealthyOutcomes)

\* Faulty variant: the validation looks for the data section only
ValidBackup_DataOnly(backupData) == "data" \in DOMAIN backupData

\* The validation of restoreBackup and of POST /backup/upload
ValidBackup(backupData) == "data" \in DOMAIN backupData /\ "metadata" \in DOMAIN backupData

\* The text of a file whose write stopped before the end: JSON.parse throws
Truncated == [truncated |-> TRUE]

Parses(content) == content # Truncated

\* fs.readFile and JSON.parse in one try block: a file that is there and parses
Loads(files, filename) ==
    filename \in DOMAIN files /\ Parses(files[filename].content)

\* restoreBackup(filename): the local file, else the one in the bucket
restoreBackup(filename, bucketOk) ==
    LET r(st) == [op |-> "restoreBackup", status |-> st, file |-> filename]
        found == Loads(backups, filename) \/ (bucketOk /\ Loads(cloud, filename))
        backupData == IF Loads(backups, filename)
                      THEN backups[filename].content
                      ELSE cloud[filename].content
    IN
    IF ~found THEN
        /\ result' = r("NotFound")
        /\ UNCHANGED <<usersFile, storeVars, backupVars>>
    ELSE IF ~ValidBackup(backupData) THEN
        /\ result' = r("CorruptSnapshot")
        /\ UNCHANGED <<usersFile, storeVars, backupVars>>
    ELSE
        /\ createBackup("pre-restore", bucketOk)
        /\ restoreAllData(backupData.data)
        /\ UNCHANGED nextId
        /\ result' = r("Success")

\* The filenames POST /backup/restore is called with
BackupNames ==
    {Filename(type, n) : type \in BackupTypes, n \in 1..MaxBackups}
        \cup DOMAIN backups \cup DOMAIN cloud

RestoreBackup ==
    \E filename \in BackupNames, bucketOk \in BOOLEAN :
        /\ nextBackup <= MaxBackups
        /\ restoreBackup(filename, bucketOk)
        /\ UNCHANGED <<now, users, streak, sessVars, upd, auth, secVars>>

\* Bodies of POST /backup/upload: a downloaded backup, a body without
\* metadata, and a backup of the requests collection alone
UploadBodies ==
    {backups[f].content : f \in DOMAIN backups}
        \cup {[data |-> [padharamaniRequests |-> <<>>]]}
        \cup {[metadata |-> [type |-> ManualType], data |-> [padharamaniRequests |-> <<>>]]}

\* POST /backup/upload
uploadBackup(backupData, bucketOk) ==
    LET r(st) == [op |-> "uploadBackup", status |-> st, file |-> Filename(ManualType, nextBackup)] IN
    IF ~ValidBackup(backupData) THEN
        /\ result' = r("CorruptSnapshot")
        /\ UNCHANGED <<usersFile, storeVars, backupVars>>
    ELSE
        /\ createBackup(ManualType, bucketOk)
        /\ restoreAllData(backupData.data)
        /\ UNCHANGED nextId
        /\ result' = r("Success")

UploadBackup ==
    \E backupData \in UploadBodies, bucketOk \in BOOLEAN :
        /\ nextBackup <= MaxBackups
        /\ uploadBackup(backupData, bucketOk)
        /\ UNCHANGED <<now, users, streak, sessVars, upd, auth, secVars>>

\* The passage of time between requests
Advance(limit) ==
    /\ now < limit
    /\ now' = now + 1
    /\ result' = [op |-> "tick", status |-> "Success"]
    /\ UNCHANGED <<acctVars, sessVars, storeVars, backupVars, upd, auth, secVars>>

Tick == Advance(MaxTime)

SessionTick == Advance(MaxSessionTime)

-----------------------------------------------------------------------------
(* The state after the services are constructed and initialized on an empty *)
(* data directory: initialize() finds no users and creates the default     *)
(* admin; the JSON files hold their default contents.                      *)

defaultTelegramConfig == [botToken |-> "", botUsername |-> "", webhookUrl |-> "", allowedUsers |-> <<>>]

\* The same, with the files found in server/backups
Boot(localBackups) ==
    /\ now = 0
    /\ users = <<defaultAdmin>>
    /\ usersFile = users
    /\ streak = <<0>>
    /\ sessions = <<>>
    /\ nextSid = 1
    /\ requestsFile = <<>>
    /\ assignedFile = <<>>
    /\ telegramFile = defaultTelegramConfig
    /\ nextId = 1
    /\ backups = localBackups
    /\ cloud = <<>>
    /\ nextBackup = 1
    /\ upd = <<>>
    /\ auth = <<>>
    /\ alerts = <<>>
    /\ nextAlert = 1
    /\ ipTracker = <<>>
    /\ result = [op |-> "init", status |-> "Success"]

Init == Boot(<<>>)

\* Backup files that are not the output of createBackup: one without a
\* metadata section, one without a data section, and a well-formed one whose
\* data section holds the requests collection alone
StrayBackups ==
    (Filename("stray", 1) :> [content |-> [data |-> [padharamaniRequests |-> <<>>]], created |-> 0])
        @@ (Filename("stray", 2) :> [content |-> [metadata |-> [type |-> ManualType]], created |-> 0])
        @@ (Filename("stray", 3) :>
                [content |-> [metadata |-> [type |-> ManualType],
                              data |-> [padharamaniRequests |-> <<>>]],
                 created |-> 0])

InitStray == Boot(StrayBackups)

\* The lockout state machine: logins against registered accounts as time passes
NextLockout ==
    \/ Authenticate
    \/ RegisterWith(Emails)
    \/ ApproveUser
    \/ Tick

SpecLockout == Init /\ [][NextLockout]_vars

\* The session manager: sessions created, used, revoked and swept as time passes
NextSessions ==
    \/ CreateSession
    \/ GetSession
    \/ DestroySession
    \/ DestroyAllUserSessions
    \/ CleanupExpiredSessions
    \/ SessionTick

SpecSessions == Init /\ [][NextSessions]_vars

\* The record store, one call at a time
NextStore ==
    \/ Quiescent /\ SchedulePadharamani
    \/ Quiescent /\ AddPadharamani
    \/ Quiescent /\ DeletePadharamani
    \/ UpdatePadharamani

SpecStore == Init /\ [][NextStore]_vars

\* The record store with updatePadharamani calls of several callers in flight
NextStoreConcurrent ==
    \/ Quiescent /\ SchedulePadharamani
    \/ UpdatePadharamaniConcurrently

SpecStoreConcurrent == Init /\ [][NextStoreConcurrent]_vars

\* Backups taken and restored between changes of the collections
NextBackup ==
    \/ CreateBackup
    \/ RestoreBackup
    \/ UploadBackup
    \/ SchedulePadharamani
    \/ AddPadharamaniWith({[date |-> Date1]})
    \/ UpdateTelegramConfig
    \/ CreateTelegramUser

SpecBackup == Init /\ [][NextBackup]_vars

\* Backups and restores with failing file operations and damaged backup files
NextBackupFaults ==
    \/ CreateBackupWith(IoOutcomes)
    \/ RestoreBackup
    \/ SchedulePadharamani
    \/ UpdateTelegramConfig

SpecBackupFaults == InitStray /\ [][NextBackupFaults]_vars

\* Logins while an administrator grants and withdraws approval, as time passes
NextRevocation ==
    \/ Authenticate
    \/ ApproveUser
    \/ UpdateUserWith({[isApproved |-> FALSE]})
    \/ Tick

SpecRevocation == Init /\ [][NextRevocation]_vars

\* Registrations under addresses that differ in letter case, with approvals,
\* logins and removals
NextRegistration ==
    \/ RegisterWith(MixedCaseEmails)
    \/ Authenticate
    \/ CreateTelegramUser
    \/ ApproveUser
    \/ DeleteUser

SpecRegistration == Init /\ [][NextRegistration]_vars

\* Password changes by the administrator and by registered users
NextPasswords ==
    \/ ChangePassword
    \/ CreateUser
    \/ Authenticate

SpecPasswords == Init /\ [][NextPasswords]_vars

\* Every operation on the account collection, at one instant
NextAccounts ==
    \/ Authenticate
    \/ CreateUser
    \/ ApproveUser
    \/ DeleteUser
    \/ UpdateUser
    \/ ChangePassword
    \/ CreateTelegramUser

SpecAccounts == Init /\ [][NextAccounts]_vars

-----------------------------------------------------------------------------
(* Properties of the account manager *)

\* The step is an authenticateUser call that found the account at index i
AuthStepOn(i) ==
    /\ result'.op = "authenticate"
    /\ result'.index = i
    /\ i \in 1..Len(users)

\* C1: the 5th consecutive failed password check locks the account until
\* fifteen minutes after that failure, and every authenticateUser call made
\* before accountLockedUntil fails with AccountLocked, whatever the password,
\* and leaves the account as it was.
C1_LockAfterMaxAttempts ==
    [][\A i \in 1..MaxUsers :
        AuthStepOn(i) =>
            /\ (streak[i] = 4 /\ streak'[i] = 5) =>
                    /\ users'[i].accountLockedUntil = now + ACCOUNT_LOCKOUT_TIME
                    /\ users'[i].failedLoginAttempts = 5
                    /\ result'.status = "AccountLocked"
            /\ (users[i].accountLockedUntil # Null /\ now < users[i].accountLockedUntil) =>
                    /\ result'.status = "AccountLocked"
                    /\ users'[i] = users[i]
      ]_vars

\* A correct password was refused on a locked account, after the locking call
C1_Witness ==
    /\ result.op = "authenticate"
    /\ result.status = "AccountLocked"
    /\ result.pwOk
    /\ result.index \in 1..Len(users)
    /\ streak[result.index] = 5
    /\ users[result.index].isApproved
    /\ users[result.index].accountLockedUntil > now

\* C2: on a locked account whose accountLockedUntil has been reached, an
\* authenticateUser call with the correct password succeeds if the account is
\* approved, and leaves failedLoginAttempts = 0 and accountLockedUntil cleared.
C2_UnlockAfterExpiry ==
    [][\A i \in 1..MaxUsers :
        (/\ AuthStepOn(i)
         /\ users[i].accountLockedUntil # Null
         /\ now >= users[i].accountLockedUntil
         /\ users[i].isApproved
         /\ result'.pwOk) =>
            /\ result'.status = "Success"
            /\ users'[i].failedLoginAttempts = 0
            /\ users'[i].accountLockedUntil = Null
      ]_vars

\* A login succeeded on an account that data/users.json still shows as locked
C2_Witness ==
    /\ result.op = "authenticate"
    /\ result.status = "Success"
    /\ result.index \in 1..Len(users)
    /\ result.index \in 1..Len(usersFile)
    /\ usersFile[result.index].accountLockedUntil # Null
    /\ usersFile[result.index].accountLockedUntil <= now
    /\ usersFile[result.index].failedLoginAttempts = 5
    /\ users[result.index].accountLockedUntil = Null
    /\ users[result.index].failedLoginAttempts = 0

\* C5: at least one account is an approved admin, in every state
C5_AdminExists ==
    \E i \in 1..Len(users) : users[i].isAdmin /\ users[i].isApproved

\* The account at index i is the only approved admin
SoleApprovedAdmin(us, i) ==
    /\ us[i].isAdmin /\ us[i].isApproved
    /\ \A j \in 1..Len(us) : (us[j].isAdmin /\ us[j].isApproved) => j = i

\* C6: deleteUser refuses with LastAdminProtected, changing nothing, exactly
\* when the target is the only approved admin; otherwise it removes the target.
C6_DeleteLastAdmin ==
    [][\A i \in 1..MaxUsers :
        (result'.op = "deleteUser" /\ result'.index = i /\ i \in 1..Len(users)) =>
            IF SoleApprovedAdmin(users, i)
            THEN result'.status = "LastAdminProtected" /\ users' = users
            ELSE result'.status = "Success" /\ users' = Splice(users, i)
      ]_vars

-----------------------------------------------------------------------------
(* Properties of the session manager *)

\* C3: getSession on a stored session before expiresAt returns it with
\* expiresAt = now + SESSION_TIMEOUT; at or after expiresAt (the instant
\* now = expiresAt included) it returns none and removes the session; a
\* session that is not stored is never returned.
C3_GetSessionExpiry ==
    [][\A sid \in SessionIds :
        (result'.op = "getSession" /\ result'.sid = sid) =>
            IF sid \notin DOMAIN sessions
            THEN result'.status = "None" /\ sid \notin DOMAIN sessions'
            ELSE IF now < sessions[sid].expiresAt
            THEN /\ result'.status = "Found"
                 /\ sid \in DOMAIN sessions'
                 /\ sessions'[sid].expiresAt = now + SESSION_TIMEOUT
            ELSE /\ result'.status = "None"
                 /\ sid \notin DOMAIN sessions'
      ]_vars

\* C4: every stored session has expiresAt = lastAccessedAt + SESSION_TIMEOUT
C4_SlidingExpiry ==
    \A sid \in DOMAIN sessions :
        sessions[sid].expiresAt = sessions[sid].lastAccessedAt + SESSION_TIMEOUT

\* A session was extended by a lookup made after its creation, next to
\* another session that has not been used since
C4_Witness ==
    /\ result.op = "getSession"
    /\ result.status = "Found"
    /\ sessions[result.sid].lastAccessedAt = now
    /\ sessions[result.sid].createdAt < now
    /\ \E other \in DOMAIN sessions : sessions[other].lastAccessedAt < now

-----------------------------------------------------------------------------
(* Properties of the record store *)

AllRecords == requestsFile \o assignedFile

\* C7: once every call has completed, no record id occurs more than once
\* across the Requests and Assigned collections combined
C7_UniqueIds ==
    Quiescent =>
        \A i, j \in 1..Len(AllRecords) : AllRecords[i].id = AllRecords[j].id => i = j

\* The step completes a Request-to-Assigned move of record id
MoveCompletes(id) ==
    \E c \in DOMAIN upd :
        /\ c \notin DOMAIN upd'
        /\ upd[c].pc = "removeWrite"
        /\ upd[c].id = id

\* C8: when an updatePadharamani call that supplied a date completes the move
\* of a request, the id is gone from Requests and Assigned holds exactly one
\* row with that id, under any interleaving of updatePadharamani calls
C8_MovedExactlyOnce ==
    [][\A id \in 1..MaxRecords :
        MoveCompletes(id) =>
            /\ FindId(requestsFile', id) = 0
            /\ Cardinality({i \in 1..Len(assignedFile') : assignedFile'[i].id = id}) = 1
      ]_vars

\* The collections a backup file holds
Payload(file) == [k \in FileKeys |-> file.content.data[k]]

\* A step in which a restore of validated data has gone through
RestoreDone ==
    /\ result'.op \in {"restoreBackup", "uploadBackup"}
    /\ result'.status = "Success"
    /\ nextBackup' # nextBackup

\* C9: every restore that passes validation, by filename or of uploaded data,
\* creates a backup of type pre-restore whose payload is the contents of the
\* collections immediately before the restore.
C9_PreRestoreSnapshot ==
    [][RestoreDone =>
        \E f \in DOMAIN backups' \ DOMAIN backups :
            /\ backups'[f].content.metadata.type = "pre-restore"
            /\ Payload(backups'[f]) = FileContents
      ]_vars

\* A step in which restoreBackup(f) of a local backup has gone through
RestoredFrom(f) ==
    /\ result'.op = "restoreBackup"
    /\ result'.status = "Success"
    /\ result'.file = f
    /\ nextBackup' # nextBackup

\* C10: a backup holds the collections as they are when it is created, it is
\* not changed by later operations, and restoring it leaves every collection
\* (requests, assigned, users, telegram config) equal to what the backup holds,
\* whatever changes were made in between.
C10_RoundTrip ==
    [][/\ \A f \in DOMAIN backups' \ DOMAIN backups : Payload(backups'[f]) = FileContents
       /\ \A f \in DOMAIN backups \cap DOMAIN backups' : backups'[f] = backups[f]
       /\ \A f \in DOMAIN backups : RestoredFrom(f) => FileContents' = Payload(backups[f])
      ]_vars

\* A restore has just brought back a backup after each of the four collections
\* had been changed (the pre-restore backup shows what they were)
C10_Witness ==
    /\ result.op = "restoreBackup"
    /\ result.status = "Success"
    /\ result.file \in DOMAIN backups
    /\ FileContents = Payload(backups[result.file])
    /\ \E g \in DOMAIN backups :
        /\ g = Filename("pre-restore", nextBackup - 1)
        /\ \A k \in FileKeys : Payload(backups[g])[k] # FileContents[k]

\* C11: restoreBackup of a file that lacks its metadata or its data section
\* fails with CorruptSnapshot; no collection is written and no backup is made.
C11_CorruptRestore ==
    [][\A f \in DOMAIN backups :
        (/\ result'.op = "restoreBackup"
         /\ result'.file = f
         /\ ~({"metadata", "data"} \subseteq DOMAIN backups[f].content))
            => /\ result'.status = "CorruptSnapshot"
               /\ FileContents' = FileContents
               /\ backups' = backups
      ]_vars

\* A restore of a damaged file has just been refused while the collections
\* differ from what the file would have written
C11_Witness ==
    /\ result.op = "restoreBackup"
    /\ result.status = "CorruptSnapshot"
    /\ result.file \in DOMAIN backups
    /\ "metadata" \notin DOMAIN backups[result.file].content
    /\ requestsFile # <<>>

\* C12: createBackup succeeds and leaves the backup in the local directory
\* whenever the read of the collections and the local write succeed, whether or
\* not the upload does; when the read or the local write fails it fails, and
\* no backup appears.
C12_LocalSuffices ==
    [][result'.op = "createBackup" =>
        IF result'.io.read /\ result'.io.write
        THEN /\ result'.status = "Success"
             /\ result'.file \in DOMAIN backups'
             /\ Payload(backups'[result'.file]) = FileContents
        ELSE /\ result'.status = "Error"
             /\ backups' = backups
             /\ cloud' = cloud
      ]_vars

\* A backup has just been created locally although the upload failed
C12_Witness ==
    /\ result.op = "createBackup"
    /\ result.status = "Success"
    /\ ~result.io.bucket
    /\ result.file \in DOMAIN backups
    /\ result.file \notin DOMAIN cloud

\* C13: authenticateUser on an account that is not approved never succeeds,
\* whatever the password and the lock state, and leaves the account's
\* failedLoginAttempts and accountLockedUntil as they were.
C13_UnapprovedUntouched ==
    [][\A i \in 1..MaxUsers :
        (AuthStepOn(i) /\ ~users[i].isApproved) =>
            /\ result'.status # "Success"
            /\ users'[i].failedLoginAttempts = users[i].failedLoginAttempts
            /\ users'[i].accountLockedUntil = users[i].accountLockedUntil
      ]_vars

\* C14: a successful password check resets failedLoginAttempts to 0, so a lock
\* is set only by the 5th failure in a row: failures separated by a success
\* do not add up.
C14_ConsecutiveOnly ==
    [][\A i \in 1..MaxUsers :
        AuthStepOn(i) =>
            /\ result'.status = "Success" => users'[i].failedLoginAttempts = 0
            /\ users'[i].accountLockedUntil \notin {Null, users[i].accountLockedUntil}
                    => streak'[i] >= MAX_LOGIN_ATTEMPTS
      ]_vars

\* Four failures, then a success that reset the counter
C14_Witness ==
    /\ result.op = "authenticate"
    /\ result.status = "Success"
    /\ result.before = MAX_LOGIN_ATTEMPTS - 1
    /\ result.index \in 1..Len(users)
    /\ users[result.index].failedLoginAttempts = 0
    /\ users[result.index].accountLockedUntil = Null

\* A call of authenticateUser on account i that gets as far as the password
\* check and fails it
FailedCheckOn(i) ==
    /\ AuthStepOn(i)
    /\ ~IsLocked(users[i])
    /\ users[i].isApproved
    /\ users[i].password # NoHash
    /\ ~result'.pwOk

\* C15: every failed password check adds exactly one to failedLoginAttempts
\* (counted from 0 when an expired lock has just been cleared), the call fails,
\* and users.json holds the new counter and the lock timestamp when the call
\* returns.
C15_FailurePersisted ==
    [][\A i \in 1..MaxUsers :
        FailedCheckOn(i) =>
            LET base == IF users[i].accountLockedUntil # Null THEN 0
                        ELSE users[i].failedLoginAttempts
            IN
            /\ result'.status \in {"InvalidCredentials", "AccountLocked"}
            /\ users'[i].failedLoginAttempts = base + 1
            /\ i \in 1..Len(usersFile')
            /\ usersFile'[i].email = users'[i].email
            /\ usersFile'[i].failedLoginAttempts = base + 1
            /\ usersFile'[i].accountLockedUntil = users'[i].accountLockedUntil
      ]_vars

\* A wrong password has just been counted and written out, short of the lock
C15_Witness ==
    /\ result.op = "authenticate"
    /\ result.status = "InvalidCredentials"
    /\ ~result.pwOk
    /\ result.index \in 1..Len(users)
    /\ result.before >= 1
    /\ users[result.index].failedLoginAttempts = result.before + 1
    /\ usersFile[result.index].failedLoginAttempts = result.before + 1

\* The address in lower case
Lower(e) == IF e = "Admin@SantPadharamani.com" THEN ADMIN_EMAIL ELSE e

\* C16: no two accounts have emails that are equal ignoring letter case.
C16_EmailsUniqueIgnoringCase ==
    \A i, j \in 1..Len(users) :
        i # j => Lower(users[i].email) # Lower(users[j].email)

\* C17: a successful registration adds exactly one account, unapproved,
\* non-admin, with failedLoginAttempts 0 and no lock, and writes it out; a
\* registration refused with DuplicateAccount or WeakPassword leaves the
\* accounts unchanged in memory and in users.json.
C17_Register ==
    [][result'.op = "createUser" =>
        IF result'.status = "Success"
        THEN /\ Len(users') = Len(users) + 1
             /\ SubSeq(users', 1, Len(users)) = users
             /\ ~users'[Len(users')].isApproved
             /\ ~users'[Len(users')].isAdmin
             /\ users'[Len(users')].failedLoginAttempts = 0
             /\ users'[Len(users')].accountLockedUntil = Null
             /\ usersFile' = users'
        ELSE /\ result'.status \in {"DuplicateAccount", "WeakPassword"}
             /\ users' = users
             /\ usersFile' = usersFile
      ]_vars

\* A registration has just added a second, unapproved account
C17_Witness ==
    /\ result.op = "createUser"
    /\ result.status = "Success"
    /\ Len(users) = 2
    /\ ~users[2].isApproved
    /\ usersFile = users

\* The complexity policy: 8 characters, lower case, upper case, digit, special
MeetsPolicy(p) ==
    /\ PwProps(p).len >= 8
    /\ PwProps(p).lower /\ PwProps(p).upper /\ PwProps(p).digit /\ PwProps(p).special

\* C18: changePassword succeeds only if the current password is right or
\* mustChangePassword is set, and the new password meets the policy; a success
\* clears mustChangePassword; a failure leaves the stored hash and the flag
\* as they were.
C18_ChangePassword ==
    [][\A i \in 1..MaxUsers :
        (result'.op = "changePassword" /\ result'.index = i /\ i <= Len(users)) =>
            IF result'.status = "Success"
            THEN /\ result'.curOk \/ users[i].mustChangePassword
                 /\ \E p \in NewPasswords : MeetsPolicy(p) /\ users'[i].password = Hash(p)
                 /\ ~users'[i].mustChangePassword
                 /\ usersFile' = users'
            ELSE /\ users'[i].password = users[i].password
                 /\ users'[i].mustChangePassword = users[i].mustChangePassword
                 /\ usersFile' = usersFile
      ]_vars

\* A forced first change has just gone through without the current password
C18_Witness ==
    /\ result.op = "changePassword"
    /\ result.status = "Success"
    /\ ~result.curOk
    /\ result.index \in 1..Len(users)
    /\ ~users[result.index].mustChangePassword
    /\ users[result.index].password = Hash("Passw0rd!")

\* C19: approveUser on an account that an earlier approveUser has approved
\* leaves the account, approval record included, as it was; approveUser of
\* an absent email fails with NotFound and changes nothing.
C19_ApproveIdempotent ==
    [][\A i \in 0..MaxUsers :
        (result'.op = "approveUser" /\ result'.index = i /\ i <= Len(users)) =>
            IF i = 0
            THEN /\ result'.status = "NotFound"
                 /\ users' = users
                 /\ usersFile' = usersFile
            ELSE (users[i].isApproved /\ users[i].approvedAt # Null) => users'[i] = users[i]
      ]_vars

\* The accounts that carry a Telegram id
WithTelegramId(us, id) == {j \in 1..Len(us) : us[j].telegramId = id}

\* C20: after createTelegramUser exactly one account has the profile's
\* telegramId, and it is approved and not an administrator; a call for a
\* telegramId that already has an account changes nothing, in memory or in
\* users.json.
C20_TelegramIdempotent ==
    [][result'.op = "createTelegramUser" =>
        LET id == result'.telegramId IN
        /\ Cardinality(WithTelegramId(users', id)) = 1
        /\ \A j \in WithTelegramId(users', id) :
                users'[j].isApproved /\ ~users'[j].isAdmin
        /\ WithTelegramId(users, id) # {} => (users' = users /\ usersFile' = usersFile)
      ]_vars

\* A repeated Telegram login has just found its account
C20_Witness ==
    /\ result.op = "createTelegramUser"
    /\ result.status = "Existing"
    /\ Cardinality(WithTelegramId(users, result.telegramId)) = 1
    /\ Len(users) = MaxUsers

-----------------------------------------------------------------------------
(* POST /auth/login: routes/auth.js.  The route calls authenticateUser and  *)
(* turns its outcome into the HTTP response; it changes no state of its own. *)

\* The response of the route for each outcome of authenticateUser
loginResponse(status) ==
    CASE status = "Success" -> [code |-> 200, error |-> ""]
      [] status = "InvalidCredentials" ->
            [code |-> 401, error |-> "Invalid email or password"]
      [] status = "NotApproved" ->
            [code |-> 403, error |-> "Account pending approval"]
      [] OTHER -> [code |-> 500, error |-> "Login failed"]

\* generateToken: the identity payload that is signed
tokenPayload(u) == [id |-> u.id, email |-> u.email]

\* C21: a login with a wrong password on an existing, approved, unlocked
\* account gets the same response as a login on an email without an account
C21_IndistinguishableFailure ==
    [][\A i \in 0..MaxUsers :
          (/\ result'.op = "authenticate"
           /\ result'.index = i
           /\ (i = 0 \/ FailedCheckOn(i)))
          => loginResponse(result'.status)
                 = [code |-> 401, error |-> "Invalid email or password"]]_vars

\* C22: destroyAllUserSessions(userId) removes every session of userId and
\* leaves every other session as it was; destroySession(sessionId) removes
\* that session and leaves every other session as it was; an id that has been
\* issued and is no longer stored is never stored again, and getSession on an
\* id that is not stored returns none.
C22_DestroyFrame ==
    [][/\ result'.op = "destroyAllUserSessions" =>
            /\ DOMAIN sessions' \subseteq DOMAIN sessions
            /\ \A k \in DOMAIN sessions :
                  IF sessions[k].userId = result'.userId
                  THEN k \notin DOMAIN sessions'
                  ELSE k \in DOMAIN sessions' /\ sessions'[k] = sessions[k]
       /\ result'.op = "destroySession" =>
            /\ result'.sid \notin DOMAIN sessions'
            /\ DOMAIN sessions' = DOMAIN sessions \ {result'.sid}
            /\ \A k \in DOMAIN sessions' : sessions'[k] = sessions[k]
       /\ \A k \in 1..(nextSid - 1) :
            k \notin DOMAIN sessions => k \notin DOMAIN sessions'
       /\ (result'.op = "getSession" /\ result'.sid \notin DOMAIN sessions) =>
            result'.status = "None"]_vars

\* Reached: one user's sessions have been destroyed while another user's
\* session is still stored
C22_Witness ==
    /\ result.op = "destroyAllUserSessions"
    /\ result.count >= 1
    /\ \E k \in DOMAIN sessions : sessions[k].userId # result.userId

\* C23: a run of cleanupExpiredSessions removes exactly the sessions whose
\* expiresAt lies before the current time and leaves the others as they
\* were, in any order of sweeps, lookups that extend a session, creations,
\* destructions and clock ticks; it never removes a session whose expiresAt
\* is the current time or later.
C23_SweepExact ==
    [][(result'.op = "cleanupExpiredSessions" /\ now' = now) =>
          /\ DOMAIN sessions' = {k \in DOMAIN sessions : sessions[k].expiresAt >= now}
          /\ \A k \in DOMAIN sessions' : sessions'[k] = sessions[k]]_vars

\* Reached: a sweep has removed an expired session and kept a session that a
\* lookup had extended
C23_Witness ==
    /\ result.op = "cleanupExpiredSessions"
    /\ result.count >= 1
    /\ \E k \in DOMAIN sessions :
          /\ sessions[k].lastAccessedAt > sessions[k].createdAt
          /\ sessions[k].expiresAt >= now

\* C24: every successful login stores a new session owned by the
\* authenticated account, and the signed identity payload carries that
\* session's id with the same user id and email as the session
C24_LoginCreatesSession ==
    [][\A i \in 1..MaxUsers :
          (AuthStepOn(i) /\ result'.status = "Success" /\ result' # result) =>
              \E sid \in DOMAIN sessions' \ DOMAIN sessions :
                  /\ sessions'[sid].userId = users'[i].id
                  /\ sessions'[sid].email = users'[i].email
                  /\ "sessionId" \in DOMAIN tokenPayload(users'[i])
                  /\ tokenPayload(users'[i]).sessionId = sid
                  /\ tokenPayload(users'[i]).id = sessions'[sid].userId
                  /\ tokenPayload(users'[i]).email = sessions'[sid].email]_vars

-----------------------------------------------------------------------------
(* Listing and pruning of backups: backupService.js listBackups and         *)
(* cleanupOldBackups, called by GET /backup/list and the weekly cleanup job. *)

\* The orders in which a directory or bucket listing may return the names
Orderings(S) ==
    {q \in [1..Cardinality(S) -> S] :
        \A i, j \in 1..Cardinality(S) : q[i] = q[j] => i = j}

\* One element of the array listBackups builds
entry(files, f, location) ==
    [filename |-> f, location |-> location, created |-> files[f].created]

\* backups.sort((a, b) => new Date(b.created) - new Date(a.created)):
\* newest first, elements of equal date in their prior order
RECURSIVE InsertByCreated(_, _)
InsertByCreated(sorted, e) ==
    IF sorted = <<>> THEN <<e>>
    ELSE IF Head(sorted).created >= e.created
         THEN <<Head(sorted)>> \o InsertByCreated(Tail(sorted), e)
         ELSE <<e>> \o sorted

RECURSIVE SortByCreated(_)
SortByCreated(list) ==
    IF list = <<>> THEN <<>>
    ELSE InsertByCreated(SortByCreated(SubSeq(list, 1, Len(list) - 1)),
                         list[Len(list)])

\* listBackups: localNames and cloudNames are the names each listing loop got
\* through before it ended (all of them unless the loop threw, which is caught)
listBackups(localNames, cloudNames) ==
    SortByCreated(
        [i \in 1..Len(localNames) |-> entry(backups, localNames[i], "local")]
        \o [i \in 1..Len(cloudNames) |-> entry(cloud, cloudNames[i], "cloud")])

\* bucket.getFiles returns the objects in the order of their names
TypeRank(type) ==
    CASE type = "manual" -> 1
      [] type = "pre-restore" -> 2
      [] OTHER -> 3

NameBefore(f, g) ==
    TypeRank(f.type) < TypeRank(g.type) \/ (f.type = g.type /\ f.n < g.n)

ByName(S) ==
    {q \in Orderings(S) : \A i, j \in 1..Len(q) : i < j => NameBefore(q[i], q[j])}

\* GET /backup/list
ListBackups ==
    \E lo \in Orderings(DOMAIN backups), co \in ByName(DOMAIN cloud) :
        \E k \in 0..Len(lo), m \in 0..Len(co) :
            /\ result' = [op |-> "listBackups", status |-> "Success",
                          list |-> listBackups(SubSeq(lo, 1, k), SubSeq(co, 1, m))]
            /\ UNCHANGED <<now, acctVars, sessVars, storeVars, backupVars, upd, auth, secVars>>

\* The files left by one pruning loop that got through the files in
\* processed before it ended
Pruned(files, processed) ==
    [f \in {g \in DOMAIN files :
                ~(g \in processed /\ OlderThanCutoff(files[g].created))}
        |-> files[f]]

\* cleanupOldBackups: the local loop and the bucket loop each run in their
\* own try/catch
cleanupOldBackups(localProcessed, cloudProcessed) ==
    /\ backups' = Pruned(backups, localProcessed)
    /\ cloud' = Pruned(cloud, cloudProcessed)
    /\ UNCHANGED nextBackup
    /\ result' = [op |-> "cleanupOldBackups", status |-> "Success",
                   local |-> localProcessed = DOMAIN backups,
                   cloud |-> cloudProcessed = DOMAIN cloud,
                   deletedLocal |-> Cardinality(DOMAIN backups)
                       - Cardinality(DOMAIN Pruned(backups, localProcessed)),
                   deletedCloud |-> Cardinality(DOMAIN cloud)
                       - Cardinality(DOMAIN Pruned(cloud, cloudProcessed))]

\* The weekly cleanup job
CleanupOldBackups ==
    \E lp \in SUBSET DOMAIN backups, cp \in SUBSET DOMAIN cloud :
        /\ cleanupOldBackups(lp, cp)
        /\ UNCHANGED <<now, acctVars, sessVars, storeVars, upd, auth, secVars>>

\* The time between two requests to the backup engine: a tick or 30 days;
\* the clock is followed for MaxTime ticks from the start and for MaxTime
\* ticks from the day the first backups reach the cutoff
Waits == {1, RETENTION}

Elapse ==
    \E w \in Waits :
        /\ now + w <= MaxTime \/ now + w \in RETENTION..(RETENTION + MaxTime)
        /\ now' = now + w
        /\ result' = [op |-> "tick", status |-> "Success"]
        /\ UNCHANGED <<acctVars, sessVars, storeVars, backupVars, upd, auth, secVars>>

NextSnapshots ==
    \/ CreateBackup
    \/ ListBackups
    \/ CleanupOldBackups
    \/ Elapse

SpecSnapshots == Init /\ [][NextSnapshots]_vars

\* C25: the list GET /backup/list returns names every backup file at most
\* once, also when the file is stored both locally and in the bucket, and is
\* ordered by creation time, newest first
C25_ListedOnceNewestFirst ==
    result.op = "listBackups" =>
        /\ \A i, j \in 1..Len(result.list) :
              result.list[i].filename = result.list[j].filename => i = j
        /\ \A i, j \in 1..Len(result.list) :
              i < j => result.list[i].created >= result.list[j].created

\* C26: a run of cleanupOldBackups removes no backup created within the last
\* 30 days and changes no backup it keeps, locally and in the bucket; a
\* local loop that completes removes every local backup older than 30 days
\* whatever happens to the bucket loop, and a bucket loop that completes
\* removes every bucket backup older than 30 days whatever happens to the
\* local loop.
C26_PruneWindow ==
    [][result'.op = "cleanupOldBackups" =>
          LET old(files) ==
                  {f \in DOMAIN files : files[f].created < now - RETENTION}
          IN
          /\ DOMAIN backups' \subseteq DOMAIN backups
          /\ DOMAIN backups \ DOMAIN backups' \subseteq old(backups)
          /\ \A f \in DOMAIN backups' : backups'[f] = backups[f]
          /\ DOMAIN cloud' \subseteq DOMAIN cloud
          /\ DOMAIN cloud \ DOMAIN cloud' \subseteq old(cloud)
          /\ \A f \in DOMAIN cloud' : cloud'[f] = cloud[f]
          /\ result'.local => DOMAIN backups' = DOMAIN backups \ old(backups)
          /\ result'.cloud => DOMAIN cloud' = DOMAIN cloud \ old(cloud)]_vars

\* Reached: the local loop ended early and left an old backup in place, the
\* bucket loop removed an old backup, and a backup dated exactly at the
\* cutoff is still in the bucket
C26_Witness ==
    /\ result.op = "cleanupOldBackups"
    /\ ~result.local
    /\ result.cloud
    /\ result.deletedCloud >= 1
    /\ \E f \in DOMAIN backups : backups[f].created < now - RETENTION
    /\ \E f \in DOMAIN cloud : cloud[f].created = now - RETENTION

\* C27: a restore writes to every collection the backup's data section holds
\* exactly what the section holds, none of the records stored before
\* remaining, and leaves every collection the section does not hold as it was
C27_RestoreReplacesPresent ==
    [][\A f \in DOMAIN backups :
          RestoredFrom(f) =>
              \A k \in FileKeys :
                  FileContents'[k] =
                      IF k \in DOMAIN backups[f].content.data
                      THEN backups[f].content.data[k]
                      ELSE FileContents[k]]_vars

\* Reached: a backup holding the requests collection alone has been restored
\* over stored requests and a changed telegram configuration; the requests
\* are replaced and the configuration is still the changed one
C27_Witness ==
    /\ result.op = "restoreBackup"
    /\ result.status = "Success"
    /\ result.file \in DOMAIN backups
    /\ DOMAIN backups[result.file].content.data = {"padharamaniRequests"}
    /\ requestsFile = <<>>
    /\ telegramFile # defaultTelegramConfig
    /\ \E g \in DOMAIN backups :
          /\ g = Filename("pre-restore", nextBackup - 1)
          /\ backups[g].content.data.padharamaniRequests # <<>>
          /\ backups[g].content.data.telegramConfig = telegramFile

\* The record store edited one call at a time as time passes
NextEdits ==
    \/ Quiescent /\ SchedulePadharamani
    \/ Quiescent /\ AddPadharamaniWith({[date |-> Date1]})
    \/ updatePadharamani(1, EditBodies)
    \/ Quiescent /\ Tick

SpecEdits == Init /\ [][NextEdits]_vars

\* The fields of the patch take the patch's values, the others keep theirs
PatchedFrom(old, new, patch) ==
    \A k \in DOMAIN old \cup DOMAIN patch :
        /\ k \in DOMAIN new
        /\ new[k] = IF k \in DOMAIN patch THEN patch[k] ELSE old[k]

\* The rows of a collection other than the one with this id are as before
OthersKept(before, after, id) ==
    [i \in {j \in 1..Len(before) : before[j].id # id} |-> before[i]]
        = [i \in {j \in 1..Len(before) : before[j].id # id} |->
              IF i <= Len(after) THEN after[i] ELSE <<>>]

\* C28: when a call of updatePadharamani(id, patch) returns, the record with
\* that id has the patch's values in the patched fields and its prior values
\* in the others, whether it stays in its collection or moves to the assigned
\* ones, and the other records are as before; for an id in neither collection
\* the call fails with NotFound and both collections are as before.
C28_UpdateMerges ==
    [][\A c \in DOMAIN upd \ DOMAIN upd' :
          LET id == upd[c].id
              patch == upd[c].patch
              ri == FindId(requestsFile, id)
              ai == FindId(assignedFile, id)
          IN
          IF ri # 0 THEN
              /\ result'.status # "NotFound"
              /\ \/ /\ FindId(requestsFile', id) = ri
                    /\ PatchedFrom(requestsFile[ri], requestsFile'[ri], patch)
                    /\ OthersKept(requestsFile, requestsFile', id)
                    /\ assignedFile' = assignedFile
                 \/ /\ FindId(requestsFile', id) = 0
                    /\ requestsFile' = Splice(requestsFile, ri)
                    /\ FindId(assignedFile', id) # 0
                    /\ PatchedFrom(requestsFile[ri],
                                   assignedFile'[FindId(assignedFile', id)], patch)
          ELSE IF ai # 0 THEN
              /\ result'.status # "NotFound"
              /\ FindId(assignedFile', id) = ai
              /\ PatchedFrom(assignedFile[ai], assignedFile'[ai], patch)
              /\ OthersKept(assignedFile, assignedFile', id)
              /\ requestsFile' = requestsFile
          ELSE
              /\ result'.status = "NotFound"
              /\ requestsFile' = requestsFile
              /\ assignedFile' = assignedFile]_vars

-----------------------------------------------------------------------------
(* The monitor's own entry points: events logged by trackSessionEvent,      *)
(* trackCorsViolation and the like, and acknowledgeAlert.                    *)

\* The event types the monitor is called with
EventTypes ==
    {"ACCOUNT_LOCKED", "SESSION_HIJACK_ATTEMPT", "FAILED_LOGIN",
     "SUCCESSFUL_LOGIN", "SYSTEM_START", "ALERT_ACKNOWLEDGED"}

\* The alert list is filled by lockouts; once it is within MaxOverflow of
\* ALERT_LIMIT the events are of every type
EventTypesAt(n) ==
    IF n <= ALERT_LIMIT - MaxOverflow
    THEN {"ACCOUNT_LOCKED", "FAILED_LOGIN"}
    ELSE EventTypes

LogSecurityEvent ==
    \E eventType \in EventTypesAt(nextAlert), appended \in BOOLEAN :
        LET m == logSecurityEvent(monitor, eventType, appended) IN
        /\ nextAlert <= ALERT_LIMIT + MaxOverflow
        /\ alerts' = m.alerts
        /\ nextAlert' = m.next
        /\ result' = [op |-> "logSecurityEvent", status |-> "Success",
                      type |-> eventType, severity |-> getSeverity(eventType),
                      recorded |-> appended]
        /\ UNCHANGED <<now, acctVars, sessVars, storeVars, backupVars, upd, auth, ipTracker>>

\* acknowledgeAlert(alertId): flag the alert and log ALERT_ACKNOWLEDGED
acknowledgeAlert(alertId, appended) ==
    LET i == FindId(alerts, alertId)
        flagged == [alerts EXCEPT ![i].acknowledged = TRUE]
        m == logSecurityEvent([alerts |-> flagged, next |-> nextAlert],
                              "ALERT_ACKNOWLEDGED", appended)
    IN
    IF i # 0 THEN
        /\ alerts' = m.alerts
        /\ nextAlert' = m.next
        /\ result' = [op |-> "acknowledgeAlert", status |-> "Success", id |-> alertId]
    ELSE
        /\ UNCHANGED <<alerts, nextAlert>>
        /\ result' = [op |-> "acknowledgeAlert", status |-> "NotFound", id |-> alertId]

\* The ids acknowledgeAlert is called with: those of the latest alerts, and
\* one that was never issued
AcknowledgedIds == {k \in 1..nextAlert : k > ALERT_LIMIT - MaxOverflow}

AcknowledgeAlert ==
    \E alertId \in AcknowledgedIds, appended \in BOOLEAN :
        /\ acknowledgeAlert(alertId, appended)
        /\ UNCHANGED <<now, acctVars, sessVars, storeVars, backupVars, upd, auth, ipTracker>>

\* The monitor fed by its callers and by the lockouts of the login path
NextAlerts ==
    \/ LogSecurityEvent
    \/ AcknowledgeAlert
    \/ AuthenticateWith(BOOLEAN)

SpecAlerts == Init /\ [][NextAlerts]_vars

\* The list after is the list before with one new unacknowledged alert of the
\* given type at its end, cut to its latest ALERT_LIMIT alerts
RingAppended(before, after, type) ==
    /\ Len(after) = IF Len(before) < ALERT_LIMIT THEN Len(before) + 1 ELSE ALERT_LIMIT
    /\ after[Len(after)].type = type
    /\ after[Len(after)].severity \in {"HIGH", "CRITICAL"}
    /\ ~after[Len(after)].acknowledged
    /\ \A i \in 1..(Len(after) - 1) :
          after[i] = before[i + Len(before) + 1 - Len(after)]

\* C29: an event that is written to the security log adds one unacknowledged
\* alert at the end of the alert list when its severity is HIGH or CRITICAL
\* and leaves the list alone otherwise; the list never holds more than 100
\* alerts, and when it is full the oldest alert makes room for the new one.
C29_AlertRing ==
    [][/\ Len(alerts') <= ALERT_LIMIT
       /\ result'.op = "logSecurityEvent" =>
             IF result'.recorded /\ result'.severity \in {"HIGH", "CRITICAL"}
             THEN RingAppended(alerts, alerts', result'.type)
             ELSE alerts' = alerts
       /\ result'.op = "authenticate" =>
             \/ alerts' = alerts
             \/ /\ result'.status = "AccountLocked"
                /\ ~result'.pwOk
                /\ result'.before = MAX_LOGIN_ATTEMPTS - 1
                /\ RingAppended(alerts, alerts', "ACCOUNT_LOCKED")]_vars

\* Reached: the list is full of unacknowledged and acknowledged alerts, its
\* oldest alert has been dropped, and a CRITICAL event has just been added
C29_Witness ==
    /\ result.op = "logSecurityEvent"
    /\ result.recorded
    /\ result.severity = "CRITICAL"
    /\ Len(alerts) = ALERT_LIMIT
    /\ alerts[1].id > 1
    /\ alerts[Len(alerts)].type = result.type
    /\ \E i \in 1..Len(alerts) : alerts[i].acknowledged

-----------------------------------------------------------------------------
(* Login tracking of the monitor: trackFailedLogin, trackSuccessfulLogin.   *)
(* A tracker entry is followed by its count; the user-agent test of         *)
(* trackFailedLogin logs a MEDIUM event and keeps no state.                 *)

IpAddresses == {"10.0.0.1", "10.0.0.2"}

\* `${ipAddress}_${Date.now() - (Date.now() % (60 * 60 * 1000))}`
hourKey(ipAddress) == <<ipAddress, now - (now % HourTicks)>>

\* Faulty variant: the report starts one failure later
ReachedThreshold_Above(count) == count > FAILED_LOGINS_PER_IP

\* tracker.count >= ALERT_THRESHOLD.FAILED_LOGINS_PER_IP
ReachedThreshold(count) == count >= FAILED_LOGINS_PER_IP

trackFailedLogin(ipAddress, appended) ==
    LET key == hourKey(ipAddress)
        count == IF key \in DOMAIN ipTracker THEN ipTracker[key] + 1 ELSE 1
        m1 == logSecurityEvent(monitor, "FAILED_LOGIN", appended)
        m2 == IF ReachedThreshold(count)
              THEN logSecurityEvent(m1, "MULTIPLE_FAILED_LOGINS", appended)
              ELSE m1
    IN
    /\ ipTracker' = MapSet(ipTracker, key, count)
    /\ alerts' = m2.alerts
    /\ nextAlert' = m2.next
    /\ result' = [op |-> "trackFailedLogin", status |-> "Success",
                   ip |-> ipAddress, count |-> count, recorded |-> appended,
                   emitted |-> IF ReachedThreshold(count)
                               THEN <<"FAILED_LOGIN", "MULTIPLE_FAILED_LOGINS">>
                               ELSE <<"FAILED_LOGIN">>]

TrackFailedLogin ==
    \E ipAddress \in IpAddresses, appended \in BOOLEAN :
        /\ nextAlert <= MaxTrackedAlerts
        /\ hourKey(ipAddress) \in DOMAIN ipTracker =>
              ipTracker[hourKey(ipAddress)] < FAILED_LOGINS_PER_IP + MaxOverflow
        /\ trackFailedLogin(ipAddress, appended)
        /\ UNCHANGED <<now, acctVars, sessVars, storeVars, backupVars, upd, auth>>

trackSuccessfulLogin(ipAddress, appended) ==
    LET m == logSecurityEvent(monitor, "SUCCESSFUL_LOGIN", appended) IN
    /\ alerts' = m.alerts
    /\ nextAlert' = m.next
    /\ ipTracker' = MapDelete(ipTracker, {hourKey(ipAddress)})
    /\ result' = [op |-> "trackSuccessfulLogin", status |-> "Success",
                   ip |-> ipAddress, count |-> 0, recorded |-> appended,
                   emitted |-> <<"SUCCESSFUL_LOGIN">>]

TrackSuccessfulLogin ==
    \E ipAddress \in IpAddresses, appended \in BOOLEAN :
        /\ trackSuccessfulLogin(ipAddress, appended)
        /\ UNCHANGED <<now, acctVars, sessVars, storeVars, backupVars, upd, auth>>

\* The clock one hour on
NextHour ==
    /\ now + HourTicks <= MaxSessionTime
    /\ now' = now + HourTicks
    /\ result' = [op |-> "tick", status |-> "Success"]
    /\ UNCHANGED <<acctVars, sessVars, storeVars, backupVars, upd, auth, secVars>>

NextTracking ==
    \/ TrackFailedLogin
    \/ TrackSuccessfulLogin
    \/ NextHour

SpecTracking == Init /\ [][NextTracking]_vars

\* How many times an event type is in a sequence of emitted events
Emitted(events, type) == Cardinality({i \in 1..Len(events) : events[i] = type})

\* C30: a call of trackFailedLogin adds one to the caller's address count of
\* the current hour, leaves the other counts alone, emits FAILED_LOGIN once,
\* and emits MULTIPLE_FAILED_LOGINS exactly when the count it has reached is
\* 10 or more; trackSuccessfulLogin removes the address's count of the
\* current hour and no other, so that the next failure of the address in
\* that hour counts as 1.
C30_FailedLoginTracking ==
    [][/\ result'.op = "trackFailedLogin" =>
            LET key == <<result'.ip, now - (now % HourTicks)>>
                prior == IF key \in DOMAIN ipTracker THEN ipTracker[key] ELSE 0
            IN
            /\ DOMAIN ipTracker' = DOMAIN ipTracker \cup {key}
            /\ ipTracker'[key] = prior + 1
            /\ result'.count = prior + 1
            /\ \A k \in DOMAIN ipTracker \ {key} : ipTracker'[k] = ipTracker[k]
            /\ Emitted(result'.emitted, "FAILED_LOGIN") = 1
            /\ Emitted(result'.emitted, "MULTIPLE_FAILED_LOGINS")
                   = IF prior + 1 >= FAILED_LOGINS_PER_IP THEN 1 ELSE 0
            /\ (result.op = "trackSuccessfulLogin" /\ result.ip = result'.ip)
                   => result'.count = 1
       /\ result'.op = "trackSuccessfulLogin" =>
            LET key == <<result'.ip, now - (now % HourTicks)>> IN
            /\ DOMAIN ipTracker' = DOMAIN ipTracker \ {key}
            /\ \A k \in DOMAIN ipTracker' : ipTracker'[k] = ipTracker[k]
            /\ Emitted(result'.emitted, "MULTIPLE_FAILED_LOGINS") = 0]_vars

\* Reached: an address has gone one failure past the threshold and has been
\* reported on both failures, while the other address has a count of its own
\* below the threshold
C30_Witness ==
    /\ result.op = "trackFailedLogin"
    /\ result.count = FAILED_LOGINS_PER_IP + 1
    /\ Emitted(result.emitted, "MULTIPLE_FAILED_LOGINS") = 1
    /\ Len(alerts) = 2
    /\ \E k \in DOMAIN ipTracker : k[1] # result.ip /\ ipTracker[k] < FAILED_LOGINS_PER_IP

\* Request bodies of PUT /api/padharamanis/:id that leave the date alone
CommentBodies == {[comments |-> "call first"]}

\* The steps of updatePadharamani that a body without a date goes through
\* while the Assigned collection is empty
updateInPlace(c) ==
    /\ \/ \E id \in 1..MaxRecords, patch \in CommentBodies :
              UpdateReadRequests(c, id, patch)
       \/ UpdateWriteRequests(c)
       \/ UpdateReadAssigned(c)
    /\ UNCHANGED <<now, acctVars, sessVars, backupVars, secVars, auth>>

UpdateInPlaceConcurrently == \E c \in 1..MaxCallers : updateInPlace(c)

NextInterleavedEdits ==
    \/ Quiescent /\ SchedulePadharamani
    \/ UpdateInPlaceConcurrently

SpecInterleavedEdits == Init /\ [][NextInterleavedEdits]_vars

\* The step is the final write of an in-place update of a request by caller c
InPlaceWrite(c) ==
    /\ c \in DOMAIN upd
    /\ c \notin DOMAIN upd'
    /\ upd[c].pc = "writeRequests"

\* C31: the final write of an updatePadharamani call puts the whole array the
\* call read (with its own row merged) into the file and reports success,
\* whatever another call has written to the file since the read; the rows
\* another call changed in between go back to what this call read.
C31_FullFileWrite ==
    [][\A c \in 1..MaxCallers :
          InPlaceWrite(c) =>
              /\ requestsFile' = upd[c].requests
              /\ result'.status = "Success"
              /\ \A j \in 1..Len(requestsFile') :
                    j # upd[c].index => requestsFile'[j] = upd[c].requests[j]]_vars

\* Reached: two calls on different requests have both reported success and
\* the change of the first is gone: the later write put back the row the
\* first had changed
C31_Witness ==
    /\ Quiescent
    /\ result.op = "updatePadharamani"
    /\ result.status = "Success"
    /\ result.discarded # {}
    /\ \E i, j \in 1..Len(requestsFile) :
          /\ requestsFile[i].id = result.id
          /\ requestsFile[i].comments = "call first"
          /\ requestsFile[j].id \in result.discarded
          /\ requestsFile[j].id # result.id
          /\ requestsFile[j].comments = "evening"

\* Positions of a call inside the move of a request to the Assigned file
MovePcs == {"addRead", "addWrite", "removeWrite"}

InFile(file, id) == FindId(file, id) # 0

\* C32: while a request is being moved to the Assigned file its id is in at
\* least one of the two files at every point, and it is in both exactly
\* between the write of the Assigned file and the write of the Requests file;
\* when the move has completed it is in the Assigned file alone.
C32_MoveNeverLoses ==
    /\ \A c \in DOMAIN upd :
          upd[c].pc \in MovePcs =>
              /\ InFile(requestsFile, upd[c].id) \/ InFile(assignedFile, upd[c].id)
              /\ (InFile(requestsFile, upd[c].id) /\ InFile(assignedFile, upd[c].id))
                    <=> upd[c].pc = "removeWrite"
    /\ (result.op = "updatePadharamani" /\ result.status = "Moved") =>
          /\ InFile(assignedFile, result.id)
          /\ ~InFile(requestsFile, result.id)

\* Reached: a move stands between its two writes with the id in both files
C32_Witness ==
    \E c \in DOMAIN upd :
        /\ upd[c].pc = "removeWrite"
        /\ InFile(requestsFile, upd[c].id)
        /\ InFile(assignedFile, upd[c].id)
        /\ Len(requestsFile) + Len(assignedFile) > 2

-----------------------------------------------------------------------------
(* The process stopping inside createBackup's fs.writeFile, and the start  *)
(* that follows.                                                           *)

\* initialize(): loadUsers, and the default admin when no account is loaded
initialize ==
    LET loaded == IF usersFile = <<>> THEN <<defaultAdmin>> ELSE usersFile IN
    /\ users' = loaded
    /\ usersFile' = loaded
    /\ streak' = [i \in 1..Len(loaded) |-> IF i <= Len(streak) THEN streak[i] ELSE 0]

\* What is left in memory after the process has started again
restart ==
    /\ initialize
    /\ sessions' = <<>>
    /\ upd' = <<>>
    /\ auth' = <<>>
    /\ alerts' = <<>>
    /\ ipTracker' = <<>>
    /\ UNCHANGED <<nextSid, nextAlert>>

\* What a write that did not finish leaves under the file's name: nothing,
\* a part of the text, or the whole text
WriteOutcomes == {"absent", "truncated", "complete"}

localAfterCrash(type, outcome) ==
    CASE outcome = "absent" -> backups
      [] outcome = "truncated" ->
            MapSet(backups, Filename(type, nextBackup),
                   [content |-> Truncated, created |-> now])
      [] OTHER ->
            MapSet(backups, Filename(type, nextBackup),
                   [content |-> backupFile(type), created |-> now])

\* createBackup('manual') stopped by the end of the process at
\* await fs.writeFile(localFilePath, ...): no upload, no cleanup
CrashInCreateBackup ==
    \E outcome \in WriteOutcomes :
        /\ nextBackup <= MaxBackups
        /\ backups' = localAfterCrash(ManualType, outcome)
        /\ nextBackup' = nextBackup + 1
        /\ restart
        /\ result' = [op |-> "crash", status |-> outcome,
                       file |-> Filename(ManualType, nextBackup)]
        /\ UNCHANGED <<now, storeVars, cloud>>

NextCrash ==
    \/ CreateBackup
    \/ CrashInCreateBackup
    \/ ListBackups
    \/ RestoreBackup
    \/ SchedulePadharamani

SpecCrash == Init /\ [][NextCrash]_vars

\* The local backup files whose text does not parse
TornFiles(files) == {f \in DOMAIN files : ~Parses(files[f].content)}

\* A crash inside the write leaves every file written before as it was
C33_EarlierIntact ==
    [][result'.op = "crash" =>
          \A f \in DOMAIN backups : f \in DOMAIN backups' /\ backups'[f] = backups[f]]_vars

\* A restore of a file that does not parse does not succeed
C33_TornNotRestored ==
    [][(result'.op = "restoreBackup" /\ result'.file \in TornFiles(backups))
          => result'.status # "Success" /\ UNCHANGED storeVars]_vars

\* C33: when the process stops while createBackup writes the backup file,
\* the files written before are as they were, a restore of the part-written
\* file does not succeed, and the part-written file is not in the list
\* GET /backup/list returns.
C33_CrashSafeSnapshots ==
    [][/\ result'.op = "crash" =>
            \A f \in DOMAIN backups : f \in DOMAIN backups' /\ backups'[f] = backups[f]
       /\ (result'.op = "restoreBackup" /\ result'.file \in TornFiles(backups))
            => result'.status # "Success"
       /\ result'.op = "listBackups" =>
            \A i \in 1..Len(result'.list) :
                result'.list[i].filename \notin TornFiles(backups)]_vars

\* C34: in every state each row of the Requests file has status Pending and
\* each row of the Assigned file has status Scheduled or Canceled, also a
\* row that came into the Assigned file by the move of a request whose
\* patch names no status.
C34_StatusByCollection ==
    /\ \A i \in 1..Len(requestsFile) : requestsFile[i].status = "Pending"
    /\ \A i \in 1..Len(assignedFile) :
          assignedFile[i].status \in {"Scheduled", "Canceled"}

-----------------------------------------------------------------------------
(* The Upcoming and Archived views: getUpcomingPadharamanis and            *)
(* getArchivedPadharamanis.                                                *)

\* The date texts of the model, in the order of JavaScript's string comparison
DateTexts == <<"", "2026-11-30", Date1, "2026-12-02">>

Rank(text) == CHOOSE i \in 1..Len(DateTexts) : DateTexts[i] = text

\* new Date().toISOString().split('T')[0]: the days the calls are made on
Days == {DateTexts[i] : i \in 2..Len(DateTexts)}

\* x >= y and x < y of JavaScript for a date text y: two strings are compared
\* as strings; null is converted to 0 and the date text to NaN, and every
\* comparison with NaN is false
GreaterEq(x, y) == x # JsNull /\ Rank(x) >= Rank(y)

Less(x, y) == x # JsNull /\ Rank(x) < Rank(y)

\* item.date >= today && item.status !== 'Canceled'
IsUpcoming(item, today) == GreaterEq(item.date, today) /\ item.status # "Canceled"

\* item.date < today || item.status === 'Canceled'
IsArchived(item, today) == Less(item.date, today) \/ item.status = "Canceled"

getUpcomingPadharamanis(today) ==
    LET Keep(item) == IsUpcoming(item, today) IN SelectSeq(assignedFile, Keep)

getArchivedPadharamanis(today) ==
    LET Keep(item) == IsArchived(item, today) IN SelectSeq(assignedFile, Keep)

\* GET /api/padharamanis/upcoming
GetUpcomingPadharamanis ==
    \E today \in Days :
        /\ result' = [op |-> "getUpcomingPadharamanis", status |-> "Success",
                       today |-> today, list |-> getUpcomingPadharamanis(today)]
        /\ UNCHANGED <<now, acctVars, sessVars, storeVars, backupVars, upd, auth, secVars>>

\* GET /api/padharamanis/archived
GetArchivedPadharamanis ==
    \E today \in Days :
        /\ result' = [op |-> "getArchivedPadharamanis", status |-> "Success",
                       today |-> today, list |-> getArchivedPadharamanis(today)]
        /\ UNCHANGED <<now, acctVars, sessVars, storeVars, backupVars, upd, auth, secVars>>

\* Bodies of POST /api/padharamanis: a date on each side of the days, with
\* and without a status
DatedBodies ==
    {[date |-> DateTexts[i]] : i \in 2..Len(DateTexts)}
        \cup {[date |-> Date1, status |-> "Canceled"]}

\* Bodies of PUT /api/padharamanis/:id: a date, a cancellation, and a date
\* cleared with null
ViewEditBodies == {[date |-> Date1], [status |-> "Canceled"], [date |-> JsNull]}

NextViews ==
    \/ Quiescent /\ SchedulePadharamani
    \/ Quiescent /\ AddPadharamaniWith(DatedBodies)
    \/ updatePadharamani(1, ViewEditBodies)
    \/ Quiescent /\ GetUpcomingPadharamanis
    \/ Quiescent /\ GetArchivedPadharamanis

SpecViews == Init /\ [][NextViews]_vars

Elements(list) == {list[i] : i \in 1..Len(list)}

\* The step is a call of the named view (no update is in flight)
ViewStep(op) == Quiescent /\ upd' = upd /\ result'.op = op

\* The views change no file
C35_ViewsReadOnly ==
    [][(ViewStep("getUpcomingPadharamanis") \/ ViewStep("getArchivedPadharamanis"))
          => UNCHANGED storeVars]_vars

\* A row is in the Archived view exactly when its date is a date before
\* today or its status is Canceled
C35_ArchivedExact ==
    [][ViewStep("getArchivedPadharamanis") =>
          \A i \in 1..Len(assignedFile) :
              assignedFile[i] \in Elements(result'.list)
                  <=> \/ assignedFile[i].status = "Canceled"
                      \/ /\ assignedFile[i].date # JsNull
                         /\ Rank(assignedFile[i].date) < Rank(result'.today)]_vars

\* C35: for the rows of the Assigned file and a day today, every row is in
\* exactly one of the Upcoming view and the Archived view of that day, it is
\* in the Archived view exactly when its date is before today or its status
\* is Canceled, and the views change no file.
C35_ViewsPartition ==
    [][/\ (ViewStep("getUpcomingPadharamanis") \/ ViewStep("getArchivedPadharamanis"))
            => UNCHANGED storeVars
       /\ ViewStep("getArchivedPadharamanis") =>
            \A i \in 1..Len(assignedFile) :
                assignedFile[i] \in Elements(result'.list)
                    <=> \/ assignedFile[i].status = "Canceled"
                        \/ /\ assignedFile[i].date # JsNull
                           /\ Rank(assignedFile[i].date) < Rank(result'.today)
       /\ ViewStep("getUpcomingPadharamanis") =>
            \A i \in 1..Len(assignedFile) :
                assignedFile[i] \in Elements(result'.list)
                    <=> assignedFile[i] \notin
                            Elements(getArchivedPadharamanis(result'.today))]_vars
\* The operations that register an account
RegisteringOps == {"createUser", "register", "createTelegramUser"}

HasAccount(us, email) == FindIndex(us, email) # 0

\* C36: after the start no operation other than a registration adds an
\* account: an address without an account gets one only by createUser,
\* register or createTelegramUser, and authenticateUser in particular leaves
\* the set of accounts as it is, so a deleted account stays absent.
C36_OnlyRegistrationAdds ==
    [][\A e \in Emails \cup {ADMIN_EMAIL} :
          (~HasAccount(users, e) /\ HasAccount(users', e))
              => result'.op \in RegisteringOps]_vars

-----------------------------------------------------------------------------
(* authenticateUser in two steps: up to the await of bcrypt.compare, and   *)
(* from its answer on. Several calls can wait at the comparison together.  *)

\* authenticateUser from its start to await bcrypt.compare(password, user.password)
authenticateBegin(c, email, password) ==
    LET us0 == ensureDefaultAdmin(users)
        st0 == IF Len(us0) > Len(users) THEN Append(streak, 0) ELSE streak
        f0  == IF Len(us0) > Len(users) THEN us0 ELSE usersFile
        i   == FindIndex(us0, email)
        r(s) == [op |-> "authenticate", index |-> i, status |-> s,
                 pwOk |-> (i # 0 /\ Compare(password, us0[i].password)),
                 before |-> IF i = 0 THEN 0 ELSE us0[i].failedLoginAttempts]
    IN
    /\ c \notin DOMAIN auth
    /\ usersFile' = f0 /\ streak' = st0
    /\ IF i = 0 THEN
           /\ users' = us0
           /\ result' = r("InvalidCredentials")
           /\ UNCHANGED auth
       ELSE IF IsLocked(us0[i]) THEN
           /\ users' = us0
           /\ result' = r("AccountLocked")
           /\ UNCHANGED auth
       ELSE
           LET u == Unlocked(us0[i]) IN
           /\ users' = [us0 EXCEPT ![i] = u]
           /\ IF ~u.isApproved THEN
                  /\ result' = r("NotApproved")
                  /\ UNCHANGED auth
              ELSE IF u.password = NoHash THEN
                  /\ result' = r("Error")
                  /\ UNCHANGED auth
              ELSE
                  /\ auth' = MapSet(auth, c,
                          [index |-> i, isValidPassword |-> Compare(password, u.password)])
                  /\ UNCHANGED result

\* authenticateUser from the answer of bcrypt.compare to its return; user is
\* the account object the call found before the await
authenticateResume(c) ==
    LET i == auth[c].index
        u == users[i]
        r(s) == [op |-> "authenticate", index |-> i, status |-> s,
                 pwOk |-> auth[c].isValidPassword,
                 before |-> u.failedLoginAttempts]
    IN
    /\ c \in DOMAIN auth
    /\ auth' = MapDelete(auth, {c})
    /\ IF ~auth[c].isValidPassword THEN
           LET v == FailedCheck(u)
               us2 == [users EXCEPT ![i] = v]
           IN
           /\ users' = us2 /\ usersFile' = FailureSaved(usersFile, us2, v)
           /\ streak' = [streak EXCEPT ![i] = Bump(@)]
           /\ result' = r(IF ReachedMaxAttempts(v.failedLoginAttempts)
                          THEN "AccountLocked" ELSE "InvalidCredentials")
       ELSE
           LET v == PassedCheck(u)
               us2 == [users EXCEPT ![i] = v]
           IN
           /\ users' = us2
           /\ usersFile' = IF u.failedLoginAttempts > 0 THEN us2 ELSE usersFile
           /\ streak' = [streak EXCEPT ![i] = 0]
           /\ result' = r("Success")

\* POST /auth/login from MaxCallers clients at once
AuthenticateBegin ==
    \E c \in 1..MaxCallers, p \in Passwords :
        /\ authenticateBegin(c, ADMIN_EMAIL, p)
        /\ UNCHANGED <<now, sessVars, storeVars, backupVars, upd, secVars>>

AuthenticateResume ==
    \E c \in 1..MaxCallers :
        /\ authenticateResume(c)
        /\ UNCHANGED <<now, sessVars, storeVars, backupVars, upd, secVars>>

NextConcurrentLogins ==
    \/ AuthenticateBegin
    \/ AuthenticateResume
    \/ Tick

SpecConcurrentLogins == Init /\ [][NextConcurrentLogins]_vars

\* C37: while an account is locked (accountLockedUntil lies ahead) no
\* authenticateUser call on it returns success and none clears
\* accountLockedUntil or sets failedLoginAttempts back, however the calls
\* waiting at the password comparison are resumed; and failedLoginAttempts
\* never exceeds MAX_LOGIN_ATTEMPTS.
C37_LockHoldsUnderInterleaving ==
    [][\A i \in 1..Len(users) :
          /\ users'[i].failedLoginAttempts <= MAX_LOGIN_ATTEMPTS
          /\ (IsLocked(users[i]) /\ now' = now) =>
                /\ users'[i].accountLockedUntil = users[i].accountLockedUntil
                /\ users'[i].failedLoginAttempts >= users[i].failedLoginAttempts
                /\ \A c \in DOMAIN auth \ DOMAIN auth' :
                      auth[c].index = i => result'.status # "Success"]_vars

\* The operations of the account manager
AccountOps ==
    {"authenticate", "register", "createUser", "approveUser", "updateUser",
     "changePassword", "deleteUser"}

\* C38: when an operation of the account manager has completed, whatever its
\* outcome, users.json holds the accounts as they are in memory, so that a
\* restart loses no change of failedLoginAttempts or accountLockedUntil.
C38_FileMatchesMemory ==
    result.op \in AccountOps => usersFile = users

\* C39: when restoreBackup of a backup that holds the users collection has
\* gone through, the accounts the account manager works with (those it
\* authenticates against and writes out on its next change) are the restored
\* ones.
C39_RestoredAccountsInUse ==
    [][\A f \in DOMAIN backups :
          (RestoredFrom(f) /\ "users" \in DOMAIN backups[f].content.data)
              => /\ usersFile' = backups[f].content.data.users
                 /\ users' = usersFile']_vars

\* Requests submitted while updates of other records are under way
NextInFlight ==
    \/ SchedulePadharamani
    \/ updatePadharamani(1, EditBodies)

SpecInFlight == Init /\ [][NextInFlight]_vars

\* The ids of the requests that were submitted after caller c read the file
SubmittedSince(c) ==
    {requestsFile[i].id : i \in 1..Len(requestsFile)}
        \ {upd[c].requests[i].id : i \in 1..Len(upd[c].requests)}

\* C40: a request that schedulePadharamani put into the Requests file while
\* the move of another request to the Assigned file was under way is still
\* in the Requests file when the move has completed.
C40_SubmissionSurvivesMove ==
    [][\A c \in DOMAIN upd \ DOMAIN upd' :
          result'.status = "Moved" =>
              \A id \in SubmittedSince(c) : InFile(requestsFile', id)]_vars

====
